---- MODULE Spec2Model ----
(***************************************************************************)
(* Verification model of the simutrador data manager: the nightly update   *)
(* coordinator (services/workflows/stock_market_nightly_update_service.py),*)
(* the Polygon bulk fetch with retry and its request throttle              *)
(* (services/data_providers/polygon_client.py), the completeness validator *)
(* (services/validation/stock_market_validation_service.py), the candle    *)
(* store (services/storage/data_storage_service.py) and gap recovery       *)
(* (services/gap_filling_service.py) and the resampling engine             *)
(* (services/storage/data_resampling_service.py).                          *)
(*                                                                         *)
(* Ten specifications share this module:                                   *)
(*   Spec          the coordinator running one nightly update request      *)
(*   FairSpec      the same, with every ready step eventually taken        *)
(*   SpecFetch     one fetch_historical_data call of a PolygonClient       *)
(*   SpecThrottle  tasks calling _make_request on one PolygonClient        *)
(*   SpecValidate  validate_trading_day_data on one stored day             *)
(*   SpecStore     store_data calls on one (symbol, timeframe) file        *)
(*   SpecGap       gap detection followed by fill_gaps_for_periods, rerun  *)
(*   SpecResample  one resample call on a stored 1-minute series           *)
(*   SpecRange     get_update_date_range for one symbol                    *)
(*   SpecRetry     retry_failed_batches calls on one FetchResult           *)
(* Each leaves the other parts' variables unchanged.                       *)
(***************************************************************************)
EXTENDS Integers, Sequences, FiniteSets, TLC

VARIABLES
    \* ---- coordinator (one request of start_nightly_update) ----
    symbols,          \* request.symbols: the requested list (duplicates allowed)
    max_concurrent,   \* request.max_concurrent
    enable_resampling,\* request.enable_resampling
    force_validation, \* request.force_validation
    semaphore,        \* value of asyncio.Semaphore(max_concurrent)
    pc,               \* position of each update_symbol_with_progress task
    progress,         \* statuses written to _progress_tracking[request_id][symbol]
    store,            \* stored 1-minute candles (minutes) per symbol
    derived,          \* 1-minute source last resampled into the derived timeframes
    missing,          \* per task: minutes validation found missing
    fetched,          \* per task: minutes the download returned
    one_min_status,   \* per task: update_statuses[0] of update_symbol_data
    resampled_from,   \* per task: source series its resampling read
    injected,         \* per task: what went wrong in its pipeline ("none" if nothing)
    task_result,      \* per task: what its coroutine returned to asyncio.gather
    response,         \* completed_updates_storage[request_id]
    \* ---- bulk fetch (PolygonClient.fetch_historical_data) ----
    f_pc, f_timeframe, f_from, f_to, f_current, f_batch_num, f_attempt,
    f_requests, f_sleeps, f_candles, f_batches, f_outcome,
    \* ---- throttle (PolygonClient._enforce_rate_limit) ----
    clock, last_request_time, t_pc, t_wake_at, t_calls, sent,
    \* ---- validator (validate_trading_day_data) ----
    v_rows,           \* rows of the day's 1-minute file, per timestamp
    v_trading_day,    \* is_trading_day(validation_date)
    v_half_day,       \* is_half_trading_day(validation_date)
    v_result,         \* the ValidationResults returned so far (at most one)
    \* ---- store (DataStorageService.store_data) ----
    s_file,           \* rows of the file, in file order
    s_latest,         \* per timestamp: values of the latest store that held it
    s_stores,         \* number of store_data calls so far
    \* ---- gap recovery (GapFillingService) ----
    g_file,           \* rows of the day's 1-minute file, in file order
    g_initial,        \* the file before any recovery
    g_vendor,         \* what the vendor holds per timestamp
    g_max_attempts,   \* max_attempts of fill_gaps_for_periods
    g_pc,             \* "idle" between calls, "filling" inside the period loop
    g_periods,        \* missing_periods handed to fill_gaps_for_periods
    g_next,           \* index of the next period of periods_to_process
    g_results,        \* results list of the current call
    g_trace,          \* per result: what the vendor, the probe and the disk did
    g_clean,          \* no fault and no cap hit in the current call so far
    g_rerun,          \* the current call started on a file an earlier call worked on
    \* ---- resampling (DataResamplingService) ----
    r_source,         \* the stored 1-minute candles of the symbol, oldest first
    r_asset,          \* asset type the classifier gives the symbol
    r_call,           \* the resample calls made so far (at most one) with their results
    \* ---- update range (get_update_date_range) ----
    u_last_update,    \* get_last_update_date(symbol, "1min"): <<>> or <<timestamp>>
    u_custom_start,   \* custom_start_date: <<>> or <<day>>
    u_custom_end,     \* custom_end_date: <<>> or <<day>>
    u_trading_days,   \* the days is_trading_day accepts
    u_range,          \* the ranges returned so far (at most one)
    \* ---- retry of failed batches (PolygonClient.retry_failed_batches) ----
    x_original,       \* the FetchResult of the original fetch
    x_result,         \* the FetchResult the caller holds (the latest one returned)
    x_input,          \* fetch_result argument of the latest call
    x_retry,          \* retry_result of the call in progress
    x_pending,        \* failed batches the call in progress has still to retry
    x_fetched,        \* date ranges the latest call has fetched
    x_pc,             \* "idle" between calls, "retrying" inside one
    x_calls           \* calls made so far

coordVars == <<symbols, max_concurrent, enable_resampling, force_validation,
               semaphore, pc, progress, store, derived, missing, fetched,
               one_min_status, resampled_from, injected, task_result, response>>
fetchVars == <<f_pc, f_timeframe, f_from, f_to, f_current, f_batch_num, f_attempt,
               f_requests, f_sleeps, f_candles, f_batches, f_outcome>>
throttleVars == <<clock, last_request_time, t_pc, t_wake_at, t_calls, sent>>
validateVars == <<v_rows, v_trading_day, v_half_day, v_result>>
storeVars == <<s_file, s_latest, s_stores>>
gapVars == <<g_file, g_initial, g_vendor, g_max_attempts, g_pc, g_periods, g_next,
             g_results, g_trace, g_clean, g_rerun>>
resampleVars == <<r_source, r_asset, r_call>>
rangeVars == <<u_last_update, u_custom_start, u_custom_end, u_trading_days, u_range>>
retryVars == <<x_original, x_result, x_input, x_retry, x_pending, x_fetched, x_pc, x_calls>>
extraVars == <<resampleVars, rangeVars, retryVars>>
dataVars == <<validateVars, storeVars, gapVars, extraVars>>
vars == <<coordVars, fetchVars, throttleVars, dataVars>>

None == "none"

(***************************************************************************)
(* Bounds of the model.                                                    *)
(***************************************************************************)
MaxSymbols == 2        \* longest requested symbol list
MaxConcurrentBound == 2 \* largest max_concurrent tried

Symbols == {"AAPL", "MSFT"}
Minutes == {1, 2}      \* the session minutes the store model tracks
Tasks == 1..Len(symbols)

\* the requested lists: every list of 1..n symbols, up to renaming of the symbols
\* (the first symbol is AAPL)
RECURSIVE SeqsUpTo(_)
SeqsUpTo(n) ==
    IF n = 1 THEN {<<"AAPL">>}
    ELSE LET shorter == SeqsUpTo(n - 1)
         IN shorter \cup {Append(q, s) : q \in {x \in shorter : Len(x) = n - 1}, s \in Symbols}

(***************************************************************************)
(* Vendor behaviour seen by one download, and what fetch_historical_data   *)
(* hands back for it.  fetch_historical_data_with_tracking catches every   *)
(* exception of a batch and records it on the FetchResult, so the caller   *)
(* always receives a series: the candles of the batches that succeeded.    *)
(***************************************************************************)
VendorKinds == {"data", "empty", "auth", "rate_limit", "transient"}

fetch_historical_data_series(kind, delivered) ==
    IF kind = "data" THEN delivered ELSE {}


(***************************************************************************)
(* Coordinator: records                                                    *)
(***************************************************************************)
Range(q) == {q[k] : k \in 1..Len(q)}

\* NightlyUpdateResult, as far as the response reads it
NightlyUpdateResult(sym, ok, err, candles, didResample) ==
    [symbol |-> sym, success |-> ok, error_message |-> err,
     candles_updated |-> candles, resampled |-> didResample]

NoStatus == [set |-> FALSE, success |-> FALSE, records_updated |-> 0, error_message |-> None]
DataUpdateStatus(ok, n, err) ==
    [set |-> TRUE, success |-> ok, records_updated |-> n, error_message |-> err]

NoTaskResult == [kind |-> "none", result |-> NightlyUpdateResult(None, FALSE, None, 0, FALSE)]
TupleResult(r) == [kind |-> "tuple", result |-> r]
ExceptionResult == [kind |-> "exception", result |-> NightlyUpdateResult(None, FALSE, None, 0, FALSE)]

NoResponse ==
    [ready |-> FALSE, symbol_results |-> <<>>, total_symbols |-> 0,
     successful_updates |-> 0, failed_updates |-> 0, overall_success |-> FALSE]

\* NightlyUpdateProgressService.update_symbol_progress, called once per status
update_symbol_progress(sym, statuses) ==
    IF sym \in Range(symbols) THEN [progress EXCEPT ![sym] = @ \o statuses] ELSE progress

\* NightlyUpdateProgressService.initialize_progress_tracking
initialize_progress_tracking(requested) ==
    [s \in Symbols |-> IF s \in Range(requested) THEN <<"pending">> ELSE <<>>]

(***************************************************************************)
(* Coordinator: the steps of update_symbol_with_progress between its       *)
(* suspension points.                                                      *)
(***************************************************************************)
\* asyncio.Semaphore: acquire() proceeds only while the value is positive
SemaphoreUnguarded == TRUE
SemaphoreFree == semaphore > 0

\* the pipeline's `except Exception` handler: report "failed", return a failed result
UnhandledPipelineException(sym, msg) ==
    [reports |-> <<>>, out |-> ExceptionResult]
PipelineException(sym, msg) ==
    [reports |-> <<"failed">>,
     out |-> TupleResult(NightlyUpdateResult(sym, FALSE, msg, 0, FALSE))]

\* what can happen between acquiring the semaphore and the first suspension
StartOutcomes ==
    {"range_error", "up_to_date", "provider_error", "proceed"}
        \cup (IF force_validation THEN {"validation_error"} ELSE {})

\* statuses reported up to the point the step ends (before any handler runs)
ReportsDownloadFirst(outcome) ==
    CASE outcome = "range_error" -> <<"validating">>
      [] outcome = "up_to_date" -> <<"validating", "completed">>
      [] outcome = "validation_error" -> <<"validating", "validating">>
      [] OTHER -> <<"downloading", "validating", "validating">>
StartReports(outcome) ==
    CASE outcome = "range_error" -> <<"validating">>
      [] outcome = "up_to_date" -> <<"validating", "completed">>
      [] outcome = "validation_error" -> <<"validating", "validating">>
      [] OTHER -> <<"validating", "validating", "downloading">>

\* validate_symbol_data_range: the expected minutes that have no stored candle
validate_symbol_data_range(sym) ==
    IF force_validation THEN Minutes \ store[sym] ELSE {}

\* DataStorageService.store_data: merge with what is stored
StoreDataLost(existing, series) == existing
store_data(existing, series) == existing \cup series

update_symbol_with_progress_start(i) ==
    /\ pc[i] = "queued"
    /\ \A j \in 1..(i - 1) : pc[j] # "queued"   \* gather starts the tasks in list order
    /\ SemaphoreFree                           \* and the semaphore wakes waiters first-in first-out
    /\ \E outcome \in StartOutcomes :
        LET sym == symbols[i]
            raised == outcome \in {"range_error", "validation_error", "provider_error"}
            handler == PipelineException(sym, outcome)
        IN  /\ progress' = update_symbol_progress(sym,
                    StartReports(outcome) \o (IF raised THEN handler.reports ELSE <<>>))
            /\ missing' = [missing EXCEPT ![i] =
                    IF outcome \in {"proceed", "provider_error"}
                    THEN validate_symbol_data_range(sym) ELSE {}]
            /\ injected' = [injected EXCEPT ![i] = IF raised THEN outcome ELSE None]
            /\ IF outcome = "proceed"
               THEN /\ pc' = [pc EXCEPT ![i] = "fetching"]
                    /\ semaphore' = semaphore - 1
                    /\ UNCHANGED task_result
               ELSE /\ pc' = [pc EXCEPT ![i] = "done"]
                    /\ UNCHANGED semaphore      \* acquired and released in this step
                    /\ task_result' = [task_result EXCEPT ![i] =
                            IF raised THEN handler.out
                            ELSE TupleResult(NightlyUpdateResult(sym, TRUE,
                                    "No updates needed - data is current", 0, FALSE))]
    /\ UNCHANGED <<symbols, max_concurrent, enable_resampling, force_validation, store,
                   derived, fetched, one_min_status, resampled_from, response>>
    /\ UNCHANGED <<fetchVars, throttleVars, dataVars>>

\* TradingDataUpdatingService.update_symbol_data after the vendor answered:
\* store the series, build the DataUpdateStatus, then wait for the client to close
update_symbol_data_fetched(i) ==
    /\ pc[i] = "fetching"
    /\ \E kind \in VendorKinds, store_fails \in BOOLEAN :
        LET sym == symbols[i]
            series == fetch_historical_data_series(kind, Minutes)
            storing == series # {}
        IN  /\ (kind # "data") => ~store_fails
            /\ fetched' = [fetched EXCEPT ![i] = series]
            /\ IF storing /\ store_fails
               THEN /\ one_min_status' = [one_min_status EXCEPT ![i] =
                            DataUpdateStatus(FALSE, 0, "storage_error")]
                    /\ injected' = [injected EXCEPT ![i] = "storage_error"]
                    /\ UNCHANGED store
               ELSE /\ one_min_status' = [one_min_status EXCEPT ![i] =
                            DataUpdateStatus(TRUE, Cardinality(series), None)]
                    /\ injected' = [injected EXCEPT ![i] =
                            IF kind \in {"auth", "rate_limit", "transient"} THEN kind ELSE None]
                    /\ store' = [store EXCEPT ![sym] = store_data(@, series)]
    /\ pc' = [pc EXCEPT ![i] = "closing"]
    /\ UNCHANGED <<symbols, max_concurrent, enable_resampling, force_validation, semaphore,
                   progress, derived, missing, resampled_from, task_result, response>>
    /\ UNCHANGED <<fetchVars, throttleVars, dataVars>>

\* nightly_settings.enable_auto_resampling (default True) and request.enable_resampling
ResamplingWanted(i) ==
    enable_resampling /\ one_min_status[i].records_updated > 0

\* the rest of the pipeline once update_symbol_data has returned
update_symbol_with_progress_finish(i) ==
    /\ pc[i] = "closing"
    /\ LET sym == symbols[i]
           st == one_min_status[i]
       IN  IF ~st.success
           THEN /\ progress' = update_symbol_progress(sym, <<"failed">>)
                /\ task_result' = [task_result EXCEPT ![i] =
                        TupleResult(NightlyUpdateResult(sym, FALSE, st.error_message, 0, FALSE))]
                /\ UNCHANGED <<derived, resampled_from>>
           ELSE IF ResamplingWanted(i)
           THEN /\ progress' = update_symbol_progress(sym, <<"resampling", "completed">>)
                /\ resampled_from' = [resampled_from EXCEPT ![i] =
                        [ran |-> TRUE, source |-> store[sym]]]
                /\ derived' = [derived EXCEPT ![sym] = store[sym]]
                /\ task_result' = [task_result EXCEPT ![i] =
                        TupleResult(NightlyUpdateResult(sym, TRUE, None, st.records_updated, TRUE))]
           ELSE /\ progress' = update_symbol_progress(sym, <<"completed">>)
                /\ task_result' = [task_result EXCEPT ![i] =
                        TupleResult(NightlyUpdateResult(sym, TRUE, None, st.records_updated, FALSE))]
                /\ UNCHANGED <<derived, resampled_from>>
    /\ pc' = [pc EXCEPT ![i] = "done"]
    /\ semaphore' = semaphore + 1
    /\ UNCHANGED <<symbols, max_concurrent, enable_resampling, force_validation, store,
                   missing, fetched, one_min_status, injected, response>>
    /\ UNCHANGED <<fetchVars, throttleVars, dataVars>>

(***************************************************************************)
(* Coordinator: asyncio.gather has returned; build update_results and the  *)
(* response of execute_nightly_update.                                     *)
(***************************************************************************)
\* update_results[symbol] = update_result, in task order, exceptions skipped
LastTupleTask(sym) ==
    LET hits == {i \in Tasks : symbols[i] = sym /\ task_result[i].kind = "tuple"}
    IN  CHOOSE i \in hits : \A j \in hits : j <= i

update_results ==
    LET keys == {symbols[i] : i \in {j \in Tasks : task_result[j].kind = "tuple"}}
    IN  [s \in keys |-> task_result[LastTupleTask(s)].result]

execute_nightly_update_complete ==
    /\ ~response.ready
    /\ \A i \in Tasks : pc[i] = "done"
    /\ LET results == update_results
           successful == Cardinality({s \in DOMAIN results : results[s].success})
           failed == Cardinality(DOMAIN results) - successful
       IN  response' = [ready |-> TRUE, symbol_results |-> results,
                        total_symbols |-> Cardinality(DOMAIN results),
                        successful_updates |-> successful, failed_updates |-> failed,
                        overall_success |-> (failed = 0)]
    /\ UNCHANGED <<symbols, max_concurrent, enable_resampling, force_validation, semaphore,
                   pc, progress, store, derived, missing, fetched, one_min_status,
                   resampled_from, injected, task_result>>
    /\ UNCHANGED <<fetchVars, throttleVars, dataVars>>


(***************************************************************************)
(* Bulk fetch: PolygonClient.fetch_historical_data(_with_tracking).        *)
(* Dates are day numbers; a candle is named by its day.                    *)
(***************************************************************************)
MaxBatches == 2        \* longest fetch, in batches
MaxRetries == 3        \* max_retries of _fetch_batch_with_retry

Timeframes == {"1min", "5min", "daily"}

\* PolygonClient._calculate_batch_size
candles_per_day(timeframe) ==
    CASE timeframe = "1min" -> 390
      [] timeframe = "5min" -> 78
      [] timeframe = "15min" -> 26
      [] timeframe = "30min" -> 13
      [] timeframe = "1h" -> 7
      [] timeframe = "2h" -> 4
      [] timeframe = "4h" -> 2
      [] timeframe \in {"daily", "1day"} -> 1
      [] OTHER -> 390

Min(a, b) == IF a <= b THEN a ELSE b

calculate_batch_size(timeframe) ==
    LET max_days_per_batch == 45000 \div candles_per_day(timeframe)
    IN  IF timeframe = "1min" THEN Min(max_days_per_batch, 60)
        ELSE IF timeframe \in {"5min", "15min"} THEN Min(max_days_per_batch, 90)
        ELSE Min(max_days_per_batch, 365)

\* what the vendor answers to one request
VendorResponses == {"ok_data", "ok_empty", "auth", "rate_limit", "transient"}

\* _make_request: the exception a vendor answer is turned into
RaisedBy(resp) ==
    CASE resp = "auth" -> "AuthenticationError"
      [] resp = "rate_limit" -> "RateLimitError"
      [] resp = "transient" -> "PolygonError"
      [] OTHER -> None

\* _fetch_batch_with_retry: `except (RateLimitError, PolygonError)`;
\* AuthenticationError is a DataProviderError, not a PolygonError
RetryableWithAuth(raised) ==
    raised \in {"RateLimitError", "PolygonError", "AuthenticationError"}
Retryable(raised) == raised \in {"RateLimitError", "PolygonError"}

\* _fetch_batch_with_retry: delay = 2**attempt
BackoffDelayLinear(attempt) == attempt + 1
BackoffDelay(attempt) == 2 ^ attempt

BatchInfo(start, end, ok, count, err) ==
    [start_date |-> start, end_date |-> end, success |-> ok,
     candles_count |-> count, error_message |-> err]

\* FetchResult.get_failed_batches / get_missing_date_ranges
get_failed_batches(batches) ==
    {k \in 1..Len(batches) : ~batches[k].success}
get_missing_date_ranges(batches) ==
    {<<batches[k].start_date, batches[k].end_date>> : k \in get_failed_batches(batches)}

date_range_days == (f_to - f_from) + 1
batch_size_days == calculate_batch_size(f_timeframe)
num_batches ==
    IF date_range_days <= batch_size_days THEN 1
    ELSE (date_range_days + batch_size_days - 1) \div batch_size_days
\* the end of the current batch: a full batch_size_days window, or (the code's min
\* with to_date) one cut at the end of the requested range
batch_end_unclamped ==
    IF date_range_days <= batch_size_days THEN f_to
    ELSE f_current + (batch_size_days - 1)
batch_end ==
    IF date_range_days <= batch_size_days THEN f_to
    ELSE Min(f_current + (batch_size_days - 1), f_to)

\* what the caller of fetch_historical_data observes once all batches are recorded:
\* every batch exception was caught, so the call returns a series
fetch_historical_data_outcome(batches) == "returned"

\* a batch is over (returned or raised out of _fetch_batch_with_retry): record it
\* and move to the next batch, or finish
RecordBatch(info, candles) ==
    /\ f_batches' = Append(f_batches, info)
    /\ f_candles' = f_candles \cup candles
    /\ IF f_batch_num < num_batches - 1
       THEN /\ f_pc' = "pause"                 \* asyncio.sleep(0.1)
            /\ f_current' = batch_end + 1
            /\ f_batch_num' = f_batch_num + 1
            /\ UNCHANGED f_outcome
       ELSE /\ f_pc' = "done"
            /\ f_current' = IF num_batches > 1 THEN batch_end + 1 ELSE f_current
            /\ f_outcome' = fetch_historical_data_outcome(Append(f_batches, info))
            /\ UNCHANGED f_batch_num

\* the vendor answers the request of the current attempt
fetch_batch_responds(resp) ==
    /\ f_pc = "request"
    /\ f_requests' = Append(f_requests,
            [start_date |-> f_current, end_date |-> batch_end,
             attempt |-> f_attempt, response |-> resp])
    /\ LET raised == RaisedBy(resp)
       IN  IF raised = None
           THEN LET got == IF resp = "ok_data" THEN f_current..batch_end ELSE {}
                IN  /\ RecordBatch(BatchInfo(f_current, batch_end, TRUE, Cardinality(got), None), got)
                    /\ UNCHANGED <<f_attempt, f_sleeps>>
           ELSE IF Retryable(raised) /\ f_attempt # MaxRetries
           THEN /\ f_pc' = "backoff"           \* asyncio.sleep(delay)
                /\ f_sleeps' = Append(f_sleeps, BackoffDelay(f_attempt))
                /\ UNCHANGED <<f_attempt, f_current, f_batch_num, f_candles, f_batches, f_outcome>>
           ELSE /\ RecordBatch(BatchInfo(f_current, batch_end, FALSE, 0, raised), {})
                /\ UNCHANGED <<f_attempt, f_sleeps>>
    /\ UNCHANGED <<f_timeframe, f_from, f_to>>
    /\ UNCHANGED <<coordVars, throttleVars, dataVars>>

\* the backoff sleep is over: next attempt of the same batch
fetch_batch_retry ==
    /\ f_pc = "backoff"
    /\ f_pc' = "request"
    /\ f_attempt' = f_attempt + 1
    /\ UNCHANGED <<f_timeframe, f_from, f_to, f_current, f_batch_num, f_requests,
                   f_sleeps, f_candles, f_batches, f_outcome>>
    /\ UNCHANGED <<coordVars, throttleVars, dataVars>>

\* the inter-batch sleep is over: first attempt of the next batch
fetch_next_batch ==
    /\ f_pc = "pause"
    /\ f_pc' = "request"
    /\ f_attempt' = 0
    /\ f_requests' = <<>>
    /\ f_sleeps' = <<>>
    /\ UNCHANGED <<f_timeframe, f_from, f_to, f_current, f_batch_num, f_candles,
                   f_batches, f_outcome>>
    /\ UNCHANGED <<coordVars, throttleVars, dataVars>>

(***************************************************************************)
(* Throttle: PolygonClient._enforce_rate_limit and _make_request, called   *)
(* by tasks that share one client.  Time is counted in ticks.              *)
(***************************************************************************)
MaxClients == 2        \* tasks sharing the client
MaxCalls == 2          \* requests each task makes
MaxClock == 5          \* last tick of the clock
MinInterval == 2       \* min_interval = 1.0 / conservative_rate, in ticks

Callers == 1..MaxClients

\* _make_request reaches the throttle; it sleeps when the last request is too recent,
\* otherwise stamps the time and sends the request
make_request_enter(t) ==
    /\ t_pc[t] = "idle"
    /\ t_calls[t] < MaxCalls
    /\ LET current_time == clock
           time_since_last == current_time - last_request_time
       IN  IF time_since_last < MinInterval
           THEN /\ t_pc' = [t_pc EXCEPT ![t] = "sleeping"]
                /\ t_wake_at' = [t_wake_at EXCEPT ![t] = current_time + (MinInterval - time_since_last)]
                /\ UNCHANGED <<last_request_time, sent, t_calls>>
           ELSE /\ t_pc' = [t_pc EXCEPT ![t] = "in_flight"]
                /\ last_request_time' = clock
                /\ sent' = Append(sent, clock)
                /\ t_calls' = [t_calls EXCEPT ![t] = @ + 1]
                /\ UNCHANGED t_wake_at
    /\ UNCHANGED clock
    /\ UNCHANGED <<coordVars, fetchVars, dataVars>>

\* asyncio.sleep is over: stamp the time and send the request
enforce_rate_limit_wakes(t) ==
    /\ t_pc[t] = "sleeping"
    /\ clock >= t_wake_at[t]
    /\ t_pc' = [t_pc EXCEPT ![t] = "in_flight"]
    /\ last_request_time' = clock
    /\ sent' = Append(sent, clock)
    /\ t_calls' = [t_calls EXCEPT ![t] = @ + 1]
    /\ UNCHANGED <<clock, t_wake_at>>
    /\ UNCHANGED <<coordVars, fetchVars, dataVars>>

\* the vendor answered: _make_request returns to its caller
make_request_returns(t) ==
    /\ t_pc[t] = "in_flight"
    /\ t_pc' = [t_pc EXCEPT ![t] = "idle"]
    /\ UNCHANGED <<clock, last_request_time, t_wake_at, t_calls, sent>>
    /\ UNCHANGED <<coordVars, fetchVars, dataVars>>

\* the event loop's clock advances
Tick ==
    /\ clock < MaxClock
    /\ clock' = clock + 1
    /\ UNCHANGED <<last_request_time, t_pc, t_wake_at, t_calls, sent>>
    /\ UNCHANGED <<coordVars, fetchVars, dataVars>>

(***************************************************************************)
(* Completeness validator: validate_trading_day_data on the 1-minute file  *)
(* of one day.  Time is counted in minutes of that day; the session is     *)
(* scaled down from 390 (full day) and 210 (half day) minutes.             *)
(***************************************************************************)
SessionLen == 3        \* minutes of a full session (390 in the settings)
HalfDayLen == 2        \* minutes of a half-day session (210 in the settings)

market_open_utc == 1
\* minute 0 is pre-market; the last timestamp is the full day's closing minute
Timestamps == 0..(market_open_utc + SessionLen)

expected_candles_per_day == SessionLen
expected_candles_half_day == HalfDayLen

\* what the file holds at a timestamp
RowKinds == {"absent", "ok", "zero_volume", "integrity_error"}
NoRows == [t \in Timestamps |-> "absent"]

\* load_data builds a PriceCandle per row; a row violating the OHLC/volume
\* constraints makes the constructor raise, load_data catches the exception and
\* returns an empty series
load_data(rows) ==
    IF \E t \in Timestamps : rows[t] = "integrity_error" THEN NoRows ELSE rows

get_expected_candle_count(trading_day, half_day) ==
    IF ~trading_day THEN 0
    ELSE IF half_day THEN expected_candles_half_day ELSE expected_candles_per_day

market_close_utc(half_day) ==
    market_open_utc + (IF half_day THEN HalfDayLen ELSE SessionLen)

\* the candles counted when enable_market_hours_check is off: all of them; when it
\* is on (the default): those of the regular session
all_loaded_candles(series, half_day) ==
    {t \in Timestamps : series[t] # "absent"}
filter_regular_market_hours(series, half_day) ==
    {t \in Timestamps : /\ series[t] # "absent"
                        /\ market_open_utc <= t
                        /\ t < market_close_utc(half_day)}

\* errors and warnings of _validate_data_integrity, by timestamp of the candle
validate_data_integrity(series) ==
    [errors   |-> {t \in Timestamps : series[t] = "integrity_error"},
     warnings |-> {t \in Timestamps : series[t] = "zero_volume"}]

RECURSIVE SortedSeq(_)
SortedSeq(S) ==
    IF S = {} THEN <<>>
    ELSE LET m == CHOOSE x \in S : \A y \in S : x <= y
         IN <<m>> \o SortedSeq(S \ {m})

\* the end of a period closed at its last missing minute period_end
PeriodEndInclusive(period_end) == period_end
PeriodEndExclusive(period_end) == period_end + 1

\* the loop over missing_times[1:] that groups consecutive missing minutes
RECURSIVE GroupMissingTimes(_, _, _, _, _)
GroupMissingTimes(missing_times, i, period_start, period_end, missing_periods) ==
    IF i > Len(missing_times)
    THEN Append(missing_periods, <<period_start, PeriodEndExclusive(period_end)>>)
    ELSE IF missing_times[i] = period_end + 1
         THEN GroupMissingTimes(missing_times, i + 1, period_start, missing_times[i],
                                missing_periods)
         ELSE GroupMissingTimes(missing_times, i + 1, missing_times[i], missing_times[i],
                                Append(missing_periods,
                                       <<period_start, PeriodEndExclusive(period_end)>>))

find_missing_periods(series, half_day) ==
    LET expected_times == market_open_utc..(market_close_utc(half_day) - 1)
        actual_times == {t \in Timestamps : series[t] # "absent"}
        missing_times == SortedSeq(expected_times \ actual_times)
    IN  IF actual_times = {} THEN << <<market_open_utc, market_close_utc(half_day)>> >>
        ELSE IF missing_times = <<>> THEN <<>>
        ELSE GroupMissingTimes(missing_times, 2, missing_times[1], missing_times[1], <<>>)

\* is_valid = len(errors) == 0
ErrorsIgnored(errors) == TRUE
NoErrors(errors) == errors = {}

ValidationResult(is_valid, expected, actual, periods, errors, warnings) ==
    [is_valid |-> is_valid, expected_candles |-> expected, actual_candles |-> actual,
     missing_periods |-> periods, errors |-> errors, warnings |-> warnings]

validate_trading_day_data_result(rows, trading_day, half_day) ==
    LET expected == get_expected_candle_count(trading_day, half_day)
        series == load_data(rows)
        actual == Cardinality(filter_regular_market_hours(series, half_day))
        periods == find_missing_periods(series, half_day)
        integrity == validate_data_integrity(series)
        errors ==
            (IF periods # <<>> THEN {"missing_period"} ELSE {})
            \cup (IF actual < expected THEN {"missing_count"} ELSE {})
            \cup (IF integrity.errors # {} THEN {"integrity"} ELSE {})
        warnings == IF integrity.warnings # {} THEN {"zero_volume"} ELSE {}
    IN  IF expected = 0
        THEN ValidationResult(TRUE, 0, 0, <<>>, {}, {"not_a_trading_day"})
        ELSE IF actual = 0
        THEN ValidationResult(FALSE, expected, 0, periods,
                              (IF periods # <<>> THEN {"missing_period"} ELSE {})
                                  \cup {"no_data"}, {})
        ELSE ValidationResult(NoErrors(errors), expected, actual, periods, errors, warnings)

validate_trading_day_data ==
    /\ v_result = <<>>
    /\ v_result' = <<validate_trading_day_data_result(v_rows, v_trading_day, v_half_day)>>
    /\ UNCHANGED <<v_rows, v_trading_day, v_half_day>>
    /\ UNCHANGED <<coordVars, fetchVars, throttleVars, storeVars, gapVars, extraVars>>

(***************************************************************************)
(* Candle store: DataStorageService.store_data on the file of one          *)
(* (symbol, timeframe[, date]).  A row is a timestamp and the candle's     *)
(* values.  Both _candles_to_dataframe and the merge with the existing     *)
(* file run sort_values("date") with pandas' default sort kind (quicksort, *)
(* not stable) and then drop_duplicates(subset=["date"], keep="last"): the *)
(* row kept for a timestamp is the one the sort happened to place last     *)
(* among the rows of that timestamp.                                       *)
(***************************************************************************)
MaxStores == 3         \* store_data calls in a row
MaxSeriesLen == 2      \* candles of one stored series

StoreTimes == 1..MaxSeriesLen
CandleValues == {"a", "b"}
Row(t, v) == [t |-> t, v |-> v]

RECURSIVE SeriesUpTo(_)
SeriesUpTo(n) ==
    IF n = 0 THEN {<<>>}
    ELSE LET shorter == SeriesUpTo(n - 1)
         IN shorter \cup {Append(q, Row(t, v)) :
                            q \in {x \in shorter : Len(x) = n - 1},
                            t \in StoreTimes, v \in CandleValues}

TimesOf(rows) == {rows[i].t : i \in 1..Len(rows)}
ValuesAt(rows, t) == {rows[i].v : i \in {j \in 1..Len(rows) : rows[j].t = t}}

\* every frame sort_values("date").drop_duplicates(subset=["date"], keep="last")
\* can produce: ordered by time, one row per timestamp, carrying the values of one
\* of the rows that had this timestamp
sort_values_drop_duplicates(rows) ==
    LET times == SortedSeq(TimesOf(rows))
        kept == {f \in [TimesOf(rows) -> {rows[i].v : i \in 1..Len(rows)}] :
                    \A t \in TimesOf(rows) : f[t] \in ValuesAt(rows, t)}
    IN  {[i \in 1..Len(times) |-> Row(times[i], kept_of[times[i]])] : kept_of \in kept}

candles_to_dataframe(candles) == sort_values_drop_duplicates(candles)

\* the frames to_parquet can be handed when series is stored over the file
store_data_frames(file, candles) ==
    IF candles = <<>> THEN {file}
    ELSE IF file # <<>>
         THEN UNION {sort_values_drop_duplicates(file \o new_df) :
                        new_df \in candles_to_dataframe(candles)}
         ELSE candles_to_dataframe(candles)

store_data_call(series) ==
    /\ s_stores < MaxStores
    /\ s_file' \in store_data_frames(s_file, series)
    /\ s_latest' = [t \in StoreTimes |->
                        IF t \in TimesOf(series) THEN ValuesAt(series, t) ELSE s_latest[t]]
    /\ s_stores' = s_stores + 1
    /\ UNCHANGED <<coordVars, fetchVars, throttleVars, validateVars, gapVars, extraVars>>

(***************************************************************************)
(* Gap recovery: analyze_data_completeness_with_gap_filling validates the  *)
(* day, hands its missing periods to fill_gaps_for_periods, which awaits   *)
(* _fill_single_gap for each of the first max_attempts periods.  The day   *)
(* is a full trading day; the vendor's holdings do not change.             *)
(***************************************************************************)
MaxAttemptsBound == 2  \* largest max_attempts tried

VendorCandles == {"none", "fresh", "malformed"}
FetchKinds == {"ok", "http_error", "exception"}
ProbeKinds == {"trades", "no_trades", "exception"}

\* the 1-minute file as the series load_data returns
SeriesOf(file) ==
    [t \in Timestamps |-> IF t \in TimesOf(file) THEN "ok" ELSE "absent"]

\* rows of the response to the aggregates request for [start_time, end_time): the
\* vendor's bars of the window and of the minutes bordering it
polygon_results(vendor, start_time, end_time) ==
    {t \in Timestamps : /\ vendor[t] # "none"
                        /\ start_time - 1 <= t
                        /\ t <= end_time}

\* "if start_time <= candle_time <= end_time: relevant_candles.append(candle)"
RelevantUnfiltered(results, start_time, end_time) == results
relevant_candles(results, start_time, end_time) ==
    {t \in results : start_time <= t /\ t <= end_time}

\* _check_trading_activity: len(trades) > 0, and False when the probe raised
check_trading_activity(probe) == probe = "trades"

\* error_message of the outcome built when no candle was relevant
ZeroCandleMessageSwapped(has_activity) ==
    IF has_activity THEN "No trading activity detected during this period"
    ELSE "Failed to fetch data from vendor"
ZeroCandleMessage(has_activity) ==
    IF has_activity THEN "Failed to fetch data from vendor"
    ELSE "No trading activity detected during this period"

GapFillResult(start_time, end_time, success, candles_recovered, vendor_unavailable, has_trading_activity, error_message) ==
    [start_time |-> start_time, end_time |-> end_time, attempted |-> TRUE,
     success |-> success, candles_recovered |-> candles_recovered,
     vendor_unavailable |-> vendor_unavailable,
     has_trading_activity |-> has_trading_activity, error_message |-> error_message]

\* the candles handed to store_data: the loaded candles, then the recovered candles
\* whose timestamp is not among them ("if new_candle.date not in existing_times")
MergeWithExisting(existing, recovered) ==
    LET added == SortedSeq(recovered \ TimesOf(existing))
    IN  existing \o [i \in 1..Len(added) |-> Row(added[i], "fresh")]

\* the periods fill_gaps_for_periods iterates over: missing_periods[:max_attempts]
PeriodsToProcess(missing_periods, max_attempts) ==
    SubSeq(missing_periods, 1,
           IF Len(missing_periods) < max_attempts THEN Len(missing_periods)
           ELSE max_attempts)

\* the caller validated the day and calls fill_gaps_for_periods with its periods
fill_gaps_for_periods_start ==
    /\ g_pc = "idle"
    /\ find_missing_periods(SeriesOf(g_file), FALSE) # <<>>
    /\ g_periods' = find_missing_periods(SeriesOf(g_file), FALSE)
    /\ g_pc' = "filling"
    /\ g_next' = 1
    /\ g_results' = <<>>
    /\ g_trace' = <<>>
    /\ g_clean' = TRUE
    /\ g_rerun' = (g_results # <<>>)
    /\ UNCHANGED <<g_file, g_initial, g_vendor, g_max_attempts>>
    /\ UNCHANGED <<coordVars, fetchVars, throttleVars, validateVars, storeVars, extraVars>>

\* one _fill_single_gap(symbol, start_time, end_time), awaited by the loop
fill_single_gap(fetch, probe, store_fails) ==
    /\ g_pc = "filling"
    /\ g_next <= Len(PeriodsToProcess(g_periods, g_max_attempts))
    /\ LET start_time == g_periods[g_next][1]
           end_time == g_periods[g_next][2]
           results == IF fetch = "ok" THEN polygon_results(g_vendor, start_time, end_time)
                      ELSE {}
           malformed == \E t \in results : g_vendor[t] = "malformed"
           relevant == relevant_candles(results, start_time, end_time)
           has_activity == check_trading_activity(probe)
           raised == fetch = "exception" \/ malformed
           stored == ~raised /\ relevant # {} /\ ~store_fails
           event == [fetch |-> fetch, malformed |-> malformed,
                     relevant |-> IF raised THEN {} ELSE relevant,
                     probe |-> IF ~raised /\ relevant = {} THEN probe ELSE "not_called",
                     store_failed |-> ~raised /\ relevant # {} /\ store_fails]
       IN  \* choices that the taken branch does not read are fixed
           /\ (raised \/ relevant # {}) => probe = "no_trades"
           /\ (raised \/ relevant = {}) => ~store_fails
           /\ g_results' = Append(g_results,
                  IF raised
                  THEN GapFillResult(start_time, end_time, FALSE, 0, FALSE, "unknown",
                                     IF fetch = "exception" THEN "fetch raised"
                                     ELSE "candle validation error")
                  ELSE IF relevant = {}
                  THEN GapFillResult(start_time, end_time, FALSE, 0, TRUE,
                                     IF has_activity THEN "yes" ELSE "no",
                                     ZeroCandleMessage(has_activity))
                  ELSE GapFillResult(start_time, end_time, TRUE, Cardinality(relevant),
                                     FALSE, "yes", None))
           /\ g_trace' = Append(g_trace, event)
           /\ IF stored
              THEN g_file' \in store_data_frames(g_file, MergeWithExisting(g_file, relevant))
              ELSE UNCHANGED g_file
           /\ g_clean' = (g_clean /\ fetch = "ok" /\ ~store_fails)
    /\ g_next' = g_next + 1
    /\ UNCHANGED <<g_initial, g_vendor, g_max_attempts, g_pc, g_periods, g_rerun>>
    /\ UNCHANGED <<coordVars, fetchVars, throttleVars, validateVars, storeVars, extraVars>>

\* the loop is over: fill_gaps_for_periods returns results
fill_gaps_for_periods_return ==
    /\ g_pc = "filling"
    /\ g_next > Len(PeriodsToProcess(g_periods, g_max_attempts))
    /\ g_pc' = "idle"
    /\ g_clean' = (g_clean /\ Len(g_periods) <= g_max_attempts)
    /\ UNCHANGED <<g_file, g_initial, g_vendor, g_max_attempts, g_periods, g_next,
                   g_results, g_trace, g_rerun>>
    /\ UNCHANGED <<coordVars, fetchVars, throttleVars, validateVars, storeVars, extraVars>>

(***************************************************************************)
(* Resampling (services/storage/data_resampling_service.py,                *)
(* core/timeframe_utils.py, models/asset_types.py).  Timestamps are        *)
(* minutes since 00:00 UTC of the first day of the source.                 *)
(***************************************************************************)
MaxSourceLen == 3      \* candles of the stored 1-minute source
DayMinutes == 1440     \* "daily" of get_timeframe_minutes: 24 hours

AssetTypes == {"us_equity", "crypto", "forex", "commodity", "unknown"}
RecognisedTimeframes == {"1min", "5min", "15min", "30min", "1h", "2h", "4h", "daily"}
\* the timeframes callers ask for: the recognised ones and one that is not
TargetTimeframes == RecognisedTimeframes \cup {"tick"}
SourceTimeframes == {"1min", "1h"}
AlignmentStrategies == {"utc_aligned", "market_session"}
DailyBoundaries == {"market_close", "utc_midnight", "asset_specific"}

\* 13:30, 13:31, 13:35, 19:59, 20:00 of the first day and 00:00 of the next
SourceTimes == {13 * 60 + 30, 13 * 60 + 31, 13 * 60 + 35, 19 * 60 + 59, 20 * 60, DayMinutes}
ValuePatterns == {"rising", "falling", "zigzag"}

RankOf(t) == Cardinality({u \in SourceTimes : u <= t})
Level(t, pattern) ==
    LET k == RankOf(t)
        n == Cardinality(SourceTimes)
    IN  CASE pattern = "rising" -> k
          [] pattern = "falling" -> n + 1 - k
          [] OTHER -> IF k % 3 = 2 THEN 3 ELSE IF k % 3 = 0 THEN 2 ELSE 1

\* a PriceCandle: positive prices, low <= open, close <= high
PriceCandle(date, open, high, low, close, volume) ==
    [date |-> date, open |-> open, high |-> high, low |-> low, close |-> close,
     volume |-> volume]
CandleAt(t, pattern) ==
    LET l == Level(t, pattern)
    IN  PriceCandle(t, 10 * l, (10 * l) + l + 1, (10 * l) - l, (10 * l) + 1, l)

\* the stored 1-minute series a call may find: distinct timestamps, any values
SourceSeriesSet ==
    { [i \in 1..Cardinality(ts) |-> CandleAt(SortedSeq(ts)[i], pattern)] :
        ts \in {x \in SUBSET SourceTimes : Cardinality(x) <= MaxSourceLen},
        pattern \in ValuePatterns }

\* get_timeframe_minutes; 0 stands for None
get_timeframe_minutes(timeframe) ==
    CASE timeframe = "1min" -> 1
      [] timeframe = "5min" -> 5
      [] timeframe = "15min" -> 15
      [] timeframe = "30min" -> 30
      [] timeframe = "1h" -> 60
      [] timeframe = "2h" -> 120
      [] timeframe = "4h" -> 240
      [] timeframe = "daily" -> DayMinutes
      [] OTHER -> 0

\* get_pandas_frequency, as the length of the pandas frequency in minutes; 0 is None
get_pandas_frequency(timeframe) ==
    CASE timeframe = "1min" -> 1
      [] timeframe = "5min" -> 5
      [] timeframe = "15min" -> 15
      [] timeframe = "30min" -> 30
      [] timeframe = "1h" -> 60
      [] timeframe = "2h" -> 2 * 60
      [] timeframe = "4h" -> 4 * 60
      [] timeframe = "daily" -> DayMinutes
      [] OTHER -> 0

validate_timeframe_conversion(from_timeframe, to_timeframe) ==
    LET from_minutes == get_timeframe_minutes(from_timeframe)
        to_minutes == get_timeframe_minutes(to_timeframe)
    IN  IF from_minutes = 0 \/ to_minutes = 0 THEN FALSE
        ELSE to_minutes > from_minutes

\* get_resampling_offset: the session open of the asset types that use session
\* alignment, in minutes; 0 is None
get_resampling_offset(asset_type) ==
    CASE asset_type = "us_equity" -> (13 * 60) + 30
      [] asset_type = "forex" -> 8 * 60
      [] OTHER -> 0

\* an offset= that applies the session offset to every intraday target
resample_offset_session_always(asset_type, to_timeframe) ==
    IF to_timeframe = "daily"
    THEN IF asset_type = "us_equity" THEN 20 * 60 ELSE 0
    ELSE get_resampling_offset(asset_type)

\* the offset= argument _resample_dataframe passes to DataFrame.resample
resample_offset(asset_type, to_timeframe) ==
    IF to_timeframe \in {"5min", "15min", "30min"}
    THEN get_resampling_offset(asset_type)
    ELSE IF to_timeframe = "daily"
         THEN IF asset_type = "us_equity" THEN 20 * 60 ELSE 0
         ELSE 0

\* the offset= argument _resample_dataframe_with_provider_alignment passes
provider_resample_offset(asset_type, to_timeframe, alignment_strategy, daily_boundary) ==
    IF alignment_strategy = "utc_aligned"
    THEN IF to_timeframe = "daily" /\ daily_boundary = "asset_specific"
              /\ asset_type = "us_equity"
         THEN 20 * 60
         ELSE 0
    ELSE resample_offset(asset_type, to_timeframe)

\* the aggregations applied to the rows of one bin
MaxHigh(rows) == CHOOSE m \in {rows[i].high : i \in 1..Len(rows)} :
                    \A i \in 1..Len(rows) : rows[i].high <= m
MinLow(rows) == CHOOSE m \in {rows[i].low : i \in 1..Len(rows)} :
                    \A i \in 1..Len(rows) : m <= rows[i].low
RECURSIVE SeqSum(_, _)
SeqSum(s, i) == IF i > Len(s) THEN 0 ELSE s[i].volume + SeqSum(s, i + 1)
\* rules whose close is the first row's close
resampling_rules_close_first(rows) ==
    [open |-> rows[1].open, high |-> MaxHigh(rows), low |-> MinLow(rows),
     close |-> rows[1].close, volume |-> SeqSum(rows, 1)]
\* get_resampling_rules: open first, high max, low min, close last, volume sum
get_resampling_rules(rows) ==
    [open |-> rows[1].open, high |-> MaxHigh(rows), low |-> MinLow(rows),
     close |-> rows[Len(rows)].close, volume |-> SeqSum(rows, 1)]

\* left edge of the bin of t: bins of `frequency` minutes are anchored at midnight
\* of the first row's day plus the offset (origin="start_day")
BinStart(t, first, frequency, offset) ==
    LET origin == (first - (first % DayMinutes)) + offset
    IN  t - ((t - origin) % frequency)
\* the label of a bin: its right edge, or (label="left", the pandas default for
\* these frequencies) its left edge
BinLabelRight(bin_start, frequency) == bin_start + frequency
BinLabelLeft(bin_start, frequency) == bin_start

\* df.resample(frequency, offset=offset).agg(agg_rules): one row per bin from the
\* bin of the first row to the bin of the last, NaN prices in a bin without rows
resample_agg(df, frequency, offset) ==
    LET first == df[1].date
        first_edge == BinStart(first, first, frequency, offset)
        bins == ((df[Len(df)].date - first_edge) \div frequency) + 1
        Edge(k) == first_edge + ((k - 1) * frequency)
        Members(k) ==
            LET InBin(c) == BinStart(c.date, first, frequency, offset) = Edge(k)
            IN  SelectSeq(df, InBin)
    IN  [k \in 1..bins |->
            IF Members(k) = <<>>
            THEN [date |-> BinLabelLeft(Edge(k), frequency), nan |-> TRUE,
                  agg |-> [open |-> 0, high |-> 0, low |-> 0, close |-> 0, volume |-> 0]]
            ELSE [date |-> BinLabelLeft(Edge(k), frequency), nan |-> FALSE,
                  agg |-> get_resampling_rules(Members(k))]]

\* dropna(subset=["open", "high", "low", "close"])
dropna(rows) ==
    LET HasPrices(row) == ~row.nan
    IN  SelectSeq(rows, HasPrices)

\* _resample_dataframe: <<>> when it raises, <<rows>> otherwise
resample_dataframe(df, to_timeframe, asset_type) ==
    LET frequency == get_pandas_frequency(to_timeframe)
    IN  IF frequency = 0 THEN <<>>
        ELSE <<dropna(resample_agg(df, frequency, resample_offset(asset_type, to_timeframe)))>>

\* _resample_dataframe_with_provider_alignment: <<>> when it raises
resample_dataframe_with_provider_alignment(df, to_timeframe, asset_type, alignment_strategy, daily_boundary) ==
    LET frequency == get_pandas_frequency(to_timeframe)
        offset == provider_resample_offset(asset_type, to_timeframe,
                                           alignment_strategy, daily_boundary)
    IN  IF frequency = 0 THEN <<>>
        ELSE <<dropna(resample_agg(df, frequency, offset))>>

\* the timestamp _dataframe_to_candles gives a row: 20:00 UTC of the row's date
\* for a daily target, the row's timestamp otherwise
candle_datetime(row_date, timeframe) ==
    IF timeframe = "daily"
    THEN ((row_date \div DayMinutes) * DayMinutes) + (20 * 60)
    ELSE row_date

\* the PriceCandle constraints; a row that fails them is skipped
ValidCandle(c) ==
    /\ c.open > 0 /\ c.high > 0 /\ c.low > 0 /\ c.close > 0 /\ c.volume >= 0
    /\ c.low <= c.open /\ c.low <= c.close /\ c.open <= c.high /\ c.close <= c.high

\* _dataframe_to_candles of the resampling service
dataframe_to_candles(rows, timeframe) ==
    LET candles == [i \in 1..Len(rows) |->
                        PriceCandle(candle_datetime(rows[i].date, timeframe),
                                    rows[i].agg.open, rows[i].agg.high, rows[i].agg.low,
                                    rows[i].agg.close, rows[i].agg.volume)]
    IN  SelectSeq(candles, ValidCandle)

\* what load_data finds: the 1-minute series, nothing for another timeframe
load_source(source, from_timeframe) ==
    IF from_timeframe = "1min" THEN source ELSE <<>>

\* what a call gives its caller: a PriceDataSeries or a DataResamplingError
SeriesResult(timeframe, candles) ==
    [kind |-> "series", timeframe |-> timeframe, candles |-> candles, message |-> None]
ErrorResult(message) ==
    [kind |-> "error", timeframe |-> None, candles |-> <<>>, message |-> message]

\* _get_timeframe_enum raises for a timeframe that is not in its map
empty_series_result(to_timeframe) ==
    IF to_timeframe \in RecognisedTimeframes
    THEN SeriesResult(to_timeframe, <<>>)
    ELSE ErrorResult("unsupported_timeframe")

resample_data_result(source, asset_type, from_timeframe, to_timeframe) ==
    IF ~validate_timeframe_conversion(from_timeframe, to_timeframe)
    THEN ErrorResult("invalid_timeframe_conversion")
    ELSE LET candles == load_source(source, from_timeframe)
             resampled_df == resample_dataframe(candles, to_timeframe, asset_type)
         IN  IF candles = <<>> THEN empty_series_result(to_timeframe)
             ELSE IF resampled_df = <<>> THEN ErrorResult("unsupported_timeframe")
             ELSE SeriesResult(to_timeframe,
                               dataframe_to_candles(resampled_df[1], to_timeframe))

resample_data_with_provider_alignment_result(source, asset_type, from_timeframe, to_timeframe, alignment_strategy, daily_boundary) ==
    LET candles == load_source(source, from_timeframe)
        resampled_df == resample_dataframe_with_provider_alignment(
                            candles, to_timeframe, asset_type,
                            alignment_strategy, daily_boundary)
    IN  IF candles = <<>> THEN empty_series_result(to_timeframe)
        ELSE IF resampled_df = <<>> THEN ErrorResult("unsupported_timeframe")
        ELSE SeriesResult(to_timeframe,
                          dataframe_to_candles(resampled_df[1], to_timeframe))

ResampleCall(entry, from_timeframe, to_timeframe, alignment_strategy, daily_boundary, result) ==
    [entry |-> entry, from_timeframe |-> from_timeframe, to_timeframe |-> to_timeframe,
     alignment_strategy |-> alignment_strategy, daily_boundary |-> daily_boundary,
     result |-> result]

resample_data(from_timeframe, to_timeframe) ==
    /\ r_call = <<>>
    /\ r_call' = <<ResampleCall("resample_data", from_timeframe, to_timeframe, None, None,
                        resample_data_result(r_source, r_asset, from_timeframe,
                                             to_timeframe))>>
    /\ UNCHANGED <<r_source, r_asset>>
    /\ UNCHANGED <<coordVars, fetchVars, throttleVars, validateVars, storeVars, gapVars,
                   rangeVars, retryVars>>

resample_data_with_provider_alignment(from_timeframe, to_timeframe, alignment_strategy, daily_boundary) ==
    /\ r_call = <<>>
    /\ r_call' = <<ResampleCall("resample_data_with_provider_alignment", from_timeframe,
                        to_timeframe, alignment_strategy, daily_boundary,
                        resample_data_with_provider_alignment_result(
                            r_source, r_asset, from_timeframe, to_timeframe,
                            alignment_strategy, daily_boundary))>>
    /\ UNCHANGED <<r_source, r_asset>>
    /\ UNCHANGED <<coordVars, fetchVars, throttleVars, validateVars, storeVars, gapVars,
                   rangeVars, retryVars>>

(***************************************************************************)
(* Update range (StockMarketNightlyUpdateService.get_update_date_range).   *)
(* Dates are day numbers, today = MaxDay; a stored candle's timestamp is   *)
(* day * SlotsPerDay + slot.                                               *)
(***************************************************************************)
MaxDay == 4            \* date.today()
LookbackDays == 2      \* timedelta(days=30) of the no-data default
SlotsPerDay == 2       \* candle timestamps told apart within one day

Days == 0..MaxDay
today == MaxDay
\* datetime.date() of a stored candle's timestamp
DateOf(timestamp) == timestamp \div SlotsPerDay
\* Optional values: <<>> is None, <<x>> is x
Optional(S) == {<<>>} \cup {<<x>> : x \in S}

\* start_date taken from the last stored candle: the day after it, or its own date
StartAfterLastUpdate(last_update) == DateOf(last_update) + 1
StartFromLastUpdate(last_update) == DateOf(last_update)

\* while start_date <= end_date and not is_trading_day(start_date): start_date += 1
RECURSIVE SkipForward(_, _, _)
SkipForward(start_date, end_date, trading_days) ==
    IF start_date <= end_date /\ start_date \notin trading_days
    THEN SkipForward(start_date + 1, end_date, trading_days)
    ELSE start_date

\* while end_date >= start_date and not is_trading_day(end_date): end_date -= 1
RECURSIVE SkipBackward(_, _, _)
SkipBackward(start_date, end_date, trading_days) ==
    IF end_date >= start_date /\ end_date \notin trading_days
    THEN SkipBackward(start_date, end_date - 1, trading_days)
    ELSE end_date

get_update_date_range_result(last_update, custom_start_date, custom_end_date, trading_days) ==
    LET start_date == IF custom_start_date # <<>> THEN custom_start_date[1]
                      ELSE IF last_update = <<>> THEN today - LookbackDays
                      ELSE StartFromLastUpdate(last_update[1])
        end_date == IF custom_end_date # <<>> THEN custom_end_date[1] ELSE today - 1
        start_trading == SkipForward(start_date, end_date, trading_days)
    IN  <<start_trading, SkipBackward(start_trading, end_date, trading_days)>>

get_update_date_range ==
    /\ u_range = <<>>
    /\ u_range' = <<get_update_date_range_result(u_last_update, u_custom_start,
                                                 u_custom_end, u_trading_days)>>
    /\ UNCHANGED <<u_last_update, u_custom_start, u_custom_end, u_trading_days>>
    /\ UNCHANGED <<coordVars, fetchVars, throttleVars, validateVars, storeVars, gapVars,
                   resampleVars, retryVars>>

(***************************************************************************)
(* Retry of failed batches (PolygonClient.retry_failed_batches) on the     *)
(* FetchResult of a finished fetch.  _fetch_batch_with_retry is taken by   *)
(* its outcome: candles, no candles, or an exception after its retries.    *)
(***************************************************************************)
MaxRetryCalls == 2     \* retry_failed_batches calls in a row

\* FetchResult(symbol, timeframe, candles)
FetchResult(timeframe, candles) ==
    [timeframe |-> timeframe, candles |-> candles, batches |-> <<>>,
     total_batches |-> 0, successful_batches |-> 0, failed_batches |-> 0]

\* FetchResult.add_batch
add_batch(result, batch_info) ==
    [result EXCEPT !.batches = Append(@, batch_info),
                   !.total_batches = @ + 1,
                   !.successful_batches = IF batch_info.success THEN @ + 1 ELSE @,
                   !.failed_batches = IF batch_info.success THEN @ ELSE @ + 1]

BatchOutcomes == {"ok_data", "ok_empty", "raised"}

\* the BatchInfo recorded for a window by its outcome, and the candles it brought
BatchInfoFor(start, end, outcome) ==
    CASE outcome = "ok_data" -> BatchInfo(start, end, TRUE, (end - start) + 1, None)
      [] outcome = "ok_empty" -> BatchInfo(start, end, TRUE, 0, None)
      [] OTHER -> BatchInfo(start, end, FALSE, 0, "PolygonError")
CandlesFor(start, end, outcome) ==
    IF outcome = "ok_data" THEN start..end ELSE {}

\* the FetchResult fetch_historical_data_with_tracking returns for a range of
\* Len(outcomes) full batches starting at day 1
RECURSIVE TrackedFetch(_, _, _)
TrackedFetch(timeframe, outcomes, k) ==
    IF k = 0 THEN FetchResult(timeframe, {})
    ELSE LET size == calculate_batch_size(timeframe)
             start == ((k - 1) * size) + 1
             end == k * size
             before == TrackedFetch(timeframe, outcomes, k - 1)
         IN  add_batch([before EXCEPT !.candles = @ \cup CandlesFor(start, end, outcomes[k])],
                       BatchInfoFor(start, end, outcomes[k]))

\* the batches retry_failed_batches copies into the new result: all of them, or
\* (the code) the successful ones
CopyAllBatches(batches) == batches
CopySuccessfulBatches(batches) ==
    LET Succeeded(b) == b.success
    IN  SelectSeq(batches, Succeeded)

\* the list get_failed_batches returns, in recorded order
FailedBatchList(batches) ==
    LET Failed(b) == ~b.success
    IN  SelectSeq(batches, Failed)

RECURSIVE AddBatches(_, _)
AddBatches(result, batches) ==
    IF batches = <<>> THEN result
    ELSE AddBatches(add_batch(result, Head(batches)), Tail(batches))

\* retry_failed_batches up to its first await: return the argument when nothing
\* failed, otherwise start a new FetchResult with the copied candles and batches
retry_failed_batches_start ==
    /\ x_pc = "idle" /\ x_calls < MaxRetryCalls
    /\ x_calls' = x_calls + 1
    /\ x_input' = x_result
    /\ x_fetched' = <<>>
    /\ IF FailedBatchList(x_result.batches) = <<>>
       THEN UNCHANGED <<x_pc, x_result, x_retry, x_pending>>
       ELSE /\ x_pc' = "retrying"
            /\ x_retry' = AddBatches(FetchResult(x_result.timeframe, x_result.candles),
                                     CopySuccessfulBatches(x_result.batches))
            /\ x_pending' = FailedBatchList(x_result.batches)
            /\ UNCHANGED x_result
    /\ UNCHANGED x_original
    /\ UNCHANGED <<coordVars, fetchVars, throttleVars, validateVars, storeVars, gapVars,
                   resampleVars, rangeVars>>

\* _fetch_batch_with_retry of the next failed batch has returned or raised
retry_failed_batches_fetched(outcome) ==
    /\ x_pc = "retrying" /\ x_pending # <<>>
    /\ LET batch_info == Head(x_pending)
           start == batch_info.start_date
           end == batch_info.end_date
       IN  /\ x_fetched' = Append(x_fetched, <<start, end>>)
           /\ x_retry' = add_batch(
                  [x_retry EXCEPT !.candles = @ \cup CandlesFor(start, end, outcome)],
                  BatchInfoFor(start, end, outcome))
    /\ x_pending' = Tail(x_pending)
    /\ UNCHANGED <<x_pc, x_calls, x_input, x_result, x_original>>
    /\ UNCHANGED <<coordVars, fetchVars, throttleVars, validateVars, storeVars, gapVars,
                   resampleVars, rangeVars>>

\* every failed batch was retried: sort the candles and return retry_result
retry_failed_batches_return ==
    /\ x_pc = "retrying" /\ x_pending = <<>>
    /\ x_pc' = "idle"
    /\ x_result' = x_retry
    /\ UNCHANGED <<x_calls, x_input, x_retry, x_pending, x_fetched, x_original>>
    /\ UNCHANGED <<coordVars, fetchVars, throttleVars, validateVars, storeVars, gapVars,
                   resampleVars, rangeVars>>

(***************************************************************************)
(* Initial states and specifications                                       *)
(***************************************************************************)
\* what is stored before the run: a partial download (minute 1 stored, minute 2 missing)
InitialStore == {1}

CoordIdle ==
    /\ symbols = <<>> /\ max_concurrent = 0 /\ enable_resampling = FALSE
    /\ force_validation = FALSE /\ semaphore = 0 /\ pc = <<>>
    /\ progress = [s \in Symbols |-> <<>>]
    /\ store = [s \in Symbols |-> {}] /\ derived = [s \in Symbols |-> {}]
    /\ missing = <<>> /\ fetched = <<>> /\ one_min_status = <<>>
    /\ resampled_from = <<>> /\ injected = <<>> /\ task_result = <<>>
    /\ response = NoResponse

FetchIdle ==
    /\ f_pc = "idle" /\ f_timeframe = "1min" /\ f_from = 1 /\ f_to = 1 /\ f_current = 1
    /\ f_batch_num = 0 /\ f_attempt = 0 /\ f_requests = <<>> /\ f_sleeps = <<>>
    /\ f_candles = {} /\ f_batches = <<>> /\ f_outcome = None

ThrottleIdle ==
    /\ clock = 0 /\ last_request_time = 0 /\ t_pc = <<>> /\ t_wake_at = <<>>
    /\ t_calls = <<>> /\ sent = <<>>

ValidateIdle ==
    /\ v_rows = NoRows /\ v_trading_day = FALSE /\ v_half_day = FALSE /\ v_result = <<>>

\* no file yet and no store_data call made
StoreIdle ==
    /\ s_file = <<>> /\ s_latest = [t \in StoreTimes |-> {}] /\ s_stores = 0

GapIdle ==
    /\ g_file = <<>> /\ g_initial = <<>> /\ g_vendor = [t \in Timestamps |-> "none"]
    /\ g_max_attempts = 0 /\ g_pc = "off" /\ g_periods = <<>> /\ g_next = 1
    /\ g_results = <<>> /\ g_trace = <<>> /\ g_clean = TRUE /\ g_rerun = FALSE

ResampleIdle ==
    /\ r_source = <<>> /\ r_asset = "unknown" /\ r_call = <<>>

RangeIdle ==
    /\ u_last_update = <<>> /\ u_custom_start = <<>> /\ u_custom_end = <<>>
    /\ u_trading_days = {} /\ u_range = <<>>

RetryIdle ==
    /\ x_original = FetchResult("1min", {}) /\ x_result = x_original
    /\ x_input = x_original /\ x_retry = x_original /\ x_pending = <<>>
    /\ x_fetched = <<>> /\ x_pc = "off" /\ x_calls = 0

ExtraIdle == ResampleIdle /\ RangeIdle /\ RetryIdle

DataIdle == ValidateIdle /\ StoreIdle /\ GapIdle /\ ExtraIdle

\* start_nightly_update has stored the request and initialised progress tracking;
\* execute_nightly_update has created one task per requested symbol
InitCoord ==
    /\ symbols \in SeqsUpTo(MaxSymbols)
    /\ max_concurrent \in 1..MaxConcurrentBound
    /\ enable_resampling \in BOOLEAN
    /\ force_validation \in BOOLEAN
    /\ semaphore = max_concurrent
    /\ pc = [i \in Tasks |-> "queued"]
    /\ progress = initialize_progress_tracking(symbols)
    /\ store = [s \in Symbols |-> InitialStore]
    /\ derived = [s \in Symbols |-> {}]
    /\ missing = [i \in Tasks |-> {}]
    /\ fetched = [i \in Tasks |-> {}]
    /\ one_min_status = [i \in Tasks |-> NoStatus]
    /\ resampled_from = [i \in Tasks |-> [ran |-> FALSE, source |-> {}]]
    /\ injected = [i \in Tasks |-> None]
    /\ task_result = [i \in Tasks |-> NoTaskResult]
    /\ response = NoResponse

Init == InitCoord /\ FetchIdle /\ ThrottleIdle /\ DataIdle

Next ==
    \/ \E i \in Tasks : update_symbol_with_progress_start(i)
    \/ \E i \in Tasks : update_symbol_data_fetched(i)
    \/ \E i \in Tasks : update_symbol_with_progress_finish(i)
    \/ execute_nightly_update_complete

Spec == Init /\ [][Next]_vars

\* the event loop runs a coroutine that is ready, and every awaited vendor call
\* returns (with data, an error or a timeout): some enabled step is always taken
FairSpec == Init /\ [][Next]_vars /\ WF_vars(Next)

\* fetch_historical_data was called and waits for the answer to its first request
InitFetch ==
    /\ f_timeframe \in Timeframes
    /\ f_from = 1
    /\ \E k \in 0..(MaxBatches - 1), r \in {1, calculate_batch_size(f_timeframe)} :
            f_to = f_from + k * calculate_batch_size(f_timeframe) + r - 1
    /\ f_pc = "request" /\ f_current = f_from /\ f_batch_num = 0 /\ f_attempt = 0
    /\ f_requests = <<>> /\ f_sleeps = <<>> /\ f_candles = {} /\ f_batches = <<>>
    /\ f_outcome = None

NextFetch ==
    \/ \E resp \in VendorResponses : fetch_batch_responds(resp)
    \/ fetch_batch_retry
    \/ fetch_next_batch

InitFetchOnly == CoordIdle /\ InitFetch /\ ThrottleIdle /\ DataIdle

SpecFetch == InitFetchOnly /\ [][NextFetch]_vars

\* a client has been constructed (_last_request_time = 0.0); the loop clock is
\* well past that, so the first request is not delayed
InitThrottle ==
    /\ clock = MinInterval
    /\ last_request_time = 0
    /\ t_pc = [t \in Callers |-> "idle"]
    /\ t_wake_at = [t \in Callers |-> 0]
    /\ t_calls = [t \in Callers |-> 0]
    /\ sent = <<>>

NextThrottle ==
    \/ \E t \in Callers : make_request_enter(t)
    \/ \E t \in Callers : enforce_rate_limit_wakes(t)
    \/ \E t \in Callers : make_request_returns(t)
    \/ Tick

InitThrottleOnly == CoordIdle /\ FetchIdle /\ InitThrottle /\ DataIdle

SpecThrottle == InitThrottleOnly /\ [][NextThrottle]_vars

\* the day's file holds any rows; validate_trading_day_data has not been called
InitValidate ==
    /\ v_rows \in [Timestamps -> RowKinds]
    /\ v_trading_day \in BOOLEAN
    /\ v_half_day \in BOOLEAN
    /\ v_result = <<>>

NextValidate == validate_trading_day_data

InitValidateOnly ==
    CoordIdle /\ FetchIdle /\ ThrottleIdle /\ InitValidate /\ StoreIdle /\ GapIdle
    /\ ExtraIdle

SpecValidate == InitValidateOnly /\ [][NextValidate]_vars

NextStore == \E series \in SeriesUpTo(MaxSeriesLen) : store_data_call(series)

InitStoreOnly ==
    CoordIdle /\ FetchIdle /\ ThrottleIdle /\ ValidateIdle /\ StoreIdle /\ GapIdle
    /\ ExtraIdle

SpecStore == InitStoreOnly /\ [][NextStore]_vars

\* the file holds earlier downloads of some session minutes; the vendor holds a
\* well-formed bar or nothing per minute, and at most one bar, of a session minute,
\* that violates the candle constraints
InitGap ==
    /\ \E present \in SUBSET (market_open_utc..(market_close_utc(FALSE) - 1)) :
            g_file = [i \in 1..Cardinality(present) |-> Row(SortedSeq(present)[i], "old")]
    /\ g_initial = g_file
    /\ g_vendor \in [Timestamps -> VendorCandles]
    /\ Cardinality({t \in Timestamps : g_vendor[t] = "malformed"}) <= 1
    /\ \A t \in Timestamps : g_vendor[t] = "malformed" =>
            (market_open_utc <= t /\ t < market_close_utc(FALSE))
    /\ g_max_attempts \in {1, MaxAttemptsBound}
    /\ g_pc = "idle" /\ g_periods = <<>> /\ g_next = 1
    /\ g_results = <<>> /\ g_trace = <<>> /\ g_clean = TRUE /\ g_rerun = FALSE

NextGap ==
    \/ fill_gaps_for_periods_start
    \/ \E fetch \in FetchKinds, probe \in ProbeKinds, store_fails \in BOOLEAN :
            fill_single_gap(fetch, probe, store_fails)
    \/ fill_gaps_for_periods_return

InitGapOnly ==
    CoordIdle /\ FetchIdle /\ ThrottleIdle /\ ValidateIdle /\ StoreIdle /\ InitGap
    /\ ExtraIdle

SpecGap == InitGapOnly /\ [][NextGap]_vars

\* the symbol has been classified and its 1-minute series is stored; no resample
\* call has been made
InitResample ==
    /\ r_source \in SourceSeriesSet
    /\ r_asset \in AssetTypes
    /\ r_call = <<>>

NextResample ==
    \/ \E from_timeframe \in SourceTimeframes, to_timeframe \in TargetTimeframes :
            resample_data(from_timeframe, to_timeframe)
    \/ \E from_timeframe \in SourceTimeframes, to_timeframe \in TargetTimeframes,
          alignment_strategy \in AlignmentStrategies, daily_boundary \in DailyBoundaries :
            resample_data_with_provider_alignment(from_timeframe, to_timeframe,
                                                  alignment_strategy, daily_boundary)

InitResampleOnly ==
    CoordIdle /\ FetchIdle /\ ThrottleIdle /\ ValidateIdle /\ StoreIdle /\ GapIdle
    /\ InitResample /\ RangeIdle /\ RetryIdle

SpecResample == InitResampleOnly /\ [][NextResample]_vars

\* the symbol has no 1-minute file or a last stored candle on some day up to today;
\* the caller gives custom dates or none; any calendar of trading days
InitRange ==
    /\ u_last_update \in Optional(0..((MaxDay * SlotsPerDay) + SlotsPerDay - 1))
    /\ u_custom_start \in Optional(Days)
    /\ u_custom_end \in Optional(Days)
    /\ u_trading_days \in SUBSET Days
    /\ u_range = <<>>

NextRange == get_update_date_range

InitRangeOnly ==
    CoordIdle /\ FetchIdle /\ ThrottleIdle /\ ValidateIdle /\ StoreIdle /\ GapIdle
    /\ ResampleIdle /\ InitRange /\ RetryIdle

SpecRange == InitRangeOnly /\ [][NextRange]_vars

\* a fetch of one to MaxBatches batches has returned its FetchResult, each batch
\* with candles, without candles or failed
InitRetry ==
    /\ \E timeframe \in Timeframes, n \in 1..MaxBatches :
         \E outcomes \in [1..n -> BatchOutcomes] :
            x_original = TrackedFetch(timeframe, outcomes, n)
    /\ x_result = x_original /\ x_input = x_original /\ x_retry = x_original
    /\ x_pending = <<>> /\ x_fetched = <<>> /\ x_pc = "idle" /\ x_calls = 0

NextRetry ==
    \/ retry_failed_batches_start
    \/ \E outcome \in BatchOutcomes : retry_failed_batches_fetched(outcome)
    \/ retry_failed_batches_return

InitRetryOnly ==
    CoordIdle /\ FetchIdle /\ ThrottleIdle /\ ValidateIdle /\ StoreIdle /\ GapIdle
    /\ ResampleIdle /\ RangeIdle /\ InitRetry

SpecRetry == InitRetryOnly /\ [][NextRetry]_vars


(***************************************************************************)
(* Claims about the coordinator (checked under Spec)                       *)
(***************************************************************************)
\* tasks that hold the semaphore: inside `async with semaphore`, suspended
Running == {i \in Tasks : pc[i] \in {"fetching", "closing"}}

\* C1: at every moment at most max_concurrent symbol pipelines are running
\* (holding the semaphore), for any requested list and any interleaving of the
\* pipelines' suspension points.
C1_ConcurrencyBound ==
    /\ Cardinality(Running) <= max_concurrent
    /\ semaphore >= 0

\* C1 witness: the bound is reached while a further symbol is waiting for the semaphore
C1_Witness ==
    /\ Cardinality(Running) = max_concurrent
    /\ \E i \in Tasks : pc[i] = "queued"

\* C2: once a run has produced its response, every requested symbol has a per-symbol
\* result in it, and the summary counts each of them as successful or as failed.
C2_EverySymbolReported ==
    response.ready =>
        /\ \A s \in Range(symbols) :
              /\ s \in DOMAIN response.symbol_results
              /\ response.symbol_results[s].symbol = s
        /\ response.total_symbols = Cardinality(Range(symbols))
        /\ response.successful_updates + response.failed_updates = response.total_symbols
        /\ response.successful_updates =
              Cardinality({s \in Range(symbols) : response.symbol_results[s].success})
        /\ response.failed_updates =
              Cardinality({s \in Range(symbols) : ~response.symbol_results[s].success})

\* C2 witness: a finished run in which one symbol's pipeline raised and another's succeeded
C2_Witness ==
    /\ response.ready
    /\ \E i, j \in Tasks :
          /\ symbols[i] # symbols[j]
          /\ injected[i] \in {"range_error", "validation_error", "provider_error"}
          /\ ~response.symbol_results[symbols[i]].success
          /\ response.symbol_results[symbols[j]].success

\* C3: when a pipeline resamples, its download (the re-fetch of the validated range)
\* has completed successfully and has been stored, so the source series the resampling
\* reads holds every candle the download recovered, in particular the recovered
\* minutes that validation had found missing.
C3_RecoveryBeforeResampling ==
    \A i \in Tasks :
        resampled_from[i].ran =>
            /\ one_min_status[i].set
            /\ one_min_status[i].success
            /\ fetched[i] \subseteq resampled_from[i].source
            /\ (missing[i] \cap fetched[i]) \subseteq resampled_from[i].source

\* C3 witness: a pipeline whose validation found missing minutes has resampled a
\* source series that holds them
C3_Witness ==
    \E i \in Tasks :
        /\ resampled_from[i].ran
        /\ missing[i] # {}
        /\ missing[i] \subseteq fetched[i]
        /\ missing[i] \subseteq resampled_from[i].source

StatusRank(status) ==
    CASE status = "pending" -> 0
      [] status = "validating" -> 1
      [] status = "downloading" -> 2
      [] status = "resampling" -> 3
      [] status \in {"completed", "failed"} -> 4
      [] OTHER -> 5

Terminal(h) == Len(h) > 0 /\ h[Len(h)] \in {"completed", "failed"}

\* the statuses of a history with immediate repetitions collapsed
RECURSIVE Collapse(_)
Collapse(h) ==
    IF Len(h) <= 1 THEN h
    ELSE IF h[1] = h[2] THEN Collapse(Tail(h))
    ELSE <<h[1]>> \o Collapse(Tail(h))

Occurrences(s) == Cardinality({i \in Tasks : symbols[i] = s})

\* C4 as stated: the statuses of a symbol that reached a terminal status are exactly
\* pending, validating, downloading, resampling, then completed or failed.
C4_FullSequence ==
    \A s \in Range(symbols) :
        Terminal(progress[s]) =>
            Collapse(progress[s]) \in
                {<<"pending", "validating", "downloading", "resampling", "completed">>,
                 <<"pending", "validating", "downloading", "resampling", "failed">>}

\* C4 amended: for a symbol requested once in the run, the reported statuses start
\* with pending, then validating, never go back in the order pending, validating,
\* downloading, resampling, completed|failed (a status may repeat, downloading and
\* resampling may be skipped), nothing follows a terminal status, and the finished
\* pipeline's last status is completed or failed.
C4_StatusOrder ==
    \A s \in Range(symbols) :
        Occurrences(s) = 1 =>
            LET h == progress[s]
            IN  /\ h[1] = "pending"
                /\ Len(h) >= 2 => h[2] = "validating"
                /\ \A k \in 1..(Len(h) - 1) :
                      /\ StatusRank(h[k]) <= StatusRank(h[k + 1])
                      /\ StatusRank(h[k]) < 4
                /\ \A k \in 1..Len(h) : StatusRank(h[k]) <= 4
                /\ (\A i \in Tasks : symbols[i] = s => pc[i] = "done") => Terminal(h)

\* C4 witness: a symbol requested once completes without a resampling status
C4_Witness ==
    /\ response.ready
    /\ \E s \in Range(symbols) :
          /\ Occurrences(s) = 1
          /\ progress[s] = <<"pending", "validating", "validating", "downloading", "completed">>

\* C5: a failure in one symbol's pipeline leaves the other symbols processed to their
\* own outcome, and the failed symbol is reported with success=false and an error
\* message.
C5_FailureReported ==
    response.ready =>
        \A i \in Tasks :
            /\ task_result[i].kind = "tuple"
            /\ injected[i] \in {"auth", "storage_error", "range_error",
                                "validation_error", "provider_error"} =>
                  /\ ~task_result[i].result.success
                  /\ task_result[i].result.error_message # None

\* a pipeline that has written the 1-minute series of its symbol and will still write
\* that symbol's resampled series once its client has closed
InWritePhase(i) ==
    /\ pc[i] = "closing"
    /\ one_min_status[i].success
    /\ fetched[i] # {}
    /\ ResamplingWanted(i)

\* C7: at no time are two pipelines in the middle of writing the stored data of the
\* same symbol.
C7_SingleWriterPerSymbol ==
    \A s \in Symbols :
        Cardinality({i \in Tasks : symbols[i] = s /\ InWritePhase(i)}) <= 1

LastBatch == f_batches[Len(f_batches)]

\* C8: a request answered with an authentication error is the last request of its
\* batch (no retry follows it), and the batch is recorded as failed.
C8_AuthNeverRetried ==
    \A k \in 1..Len(f_requests) :
        f_requests[k].response = "auth" =>
            /\ k = Len(f_requests)
            /\ f_pc \in {"pause", "done"}
            /\ Len(f_batches) > 0
            /\ LastBatch.start_date = f_requests[k].start_date
            /\ LastBatch.end_date = f_requests[k].end_date
            /\ ~LastBatch.success
            /\ LastBatch.error_message = "AuthenticationError"

\* C8 witness: a batch whose first request met an authentication error was attempted
\* once and recorded as failed
C8_Witness ==
    /\ f_pc \in {"pause", "done"}
    /\ Len(f_requests) = 1
    /\ f_requests[1].response = "auth"
    /\ ~LastBatch.success

ExpectedBatches ==
    LET size == calculate_batch_size(f_timeframe)
        days == (f_to - f_from) + 1
    IN  (days + size - 1) \div size

\* C9: a batch that fails with a rate-limit or transient error is retried after delays
\* of 1, 2, 4 (doubling), at most MaxRetries + 1 attempts in all; when every attempt
\* failed the batch is recorded as failed with its date range and error, it is among
\* the failed date ranges, and the fetch goes on to the following batches.
C9_RetryBackoffThenRecord ==
    /\ Len(f_requests) <= MaxRetries + 1
    /\ \A k \in 1..Len(f_sleeps) :
          /\ f_sleeps[k] = (IF k = 1 THEN 1 ELSE 2 * f_sleeps[k - 1])
          /\ k <= Len(f_requests)
          /\ f_requests[k].response \in {"rate_limit", "transient"}
    /\ \A k \in 1..Len(f_requests) :
          (f_requests[k].response \in {"rate_limit", "transient"} /\ k <= MaxRetries)
              => Len(f_sleeps) >= k
    /\ (/\ Len(f_requests) = MaxRetries + 1
        /\ f_requests[MaxRetries + 1].response \in {"rate_limit", "transient"}) =>
          /\ f_pc \in {"pause", "done"}
          /\ ~LastBatch.success
          /\ LastBatch.start_date = f_requests[1].start_date
          /\ LastBatch.end_date = f_requests[1].end_date
          /\ LastBatch.error_message = RaisedBy(f_requests[MaxRetries + 1].response)
          /\ <<f_requests[1].start_date, f_requests[1].end_date>>
                \in get_missing_date_ranges(f_batches)
    /\ f_pc = "pause" => Len(f_batches) < ExpectedBatches
    /\ f_pc = "done" => Len(f_batches) = ExpectedBatches

\* C9 witness: the first batch failed after all its attempts, and the second batch was
\* still fetched and succeeded after one retry
C9_Witness ==
    /\ f_pc = "done"
    /\ Len(f_batches) = 2
    /\ ~f_batches[1].success
    /\ f_batches[1].error_message = "RateLimitError"
    /\ f_batches[2].success
    /\ f_sleeps = <<1>>

\* C10: when a batch failed on rejected credentials or on the rate limit, the caller of
\* fetch_historical_data observes a failure of that kind.
C10_ErrorKindSurfaced ==
    f_pc = "done" =>
        \A k \in 1..Len(f_batches) :
            (~f_batches[k].success
                /\ f_batches[k].error_message \in {"AuthenticationError", "RateLimitError"})
            => f_outcome = f_batches[k].error_message

(***************************************************************************)
(* Gap recovery, the store and the validator                               *)
(***************************************************************************)
\* the call of fill_gaps_for_periods has returned its results
GapCallReturned == g_pc = "idle" /\ g_results # <<>>
GapOutcomes == 1..Len(g_results)

\* C11: fill_gaps_for_periods processes at most max_attempts of the given periods, and
\* every period beyond the cap appears in the returned outcomes, as not attempted.
\* Checked under SpecGap.
C11_ExcessReportedNotAttempted ==
    GapCallReturned =>
        /\ Cardinality({i \in GapOutcomes : g_results[i].attempted}) <= g_max_attempts
        /\ Len(g_results) = Len(g_periods)
        /\ \A i \in GapOutcomes : i > g_max_attempts => ~g_results[i].attempted

\* C12: when the vendor fetch or the trade-existence probe of a period raised, the
\* period's outcome is not recovered, not vendor-unavailable, trading activity unknown,
\* and carries the exception's message.  Checked under SpecGap.
C12_ExceptionOutcome ==
    \A i \in GapOutcomes :
        (g_trace[i].fetch = "exception" \/ g_trace[i].probe = "exception") =>
            /\ ~g_results[i].success
            /\ ~g_results[i].vendor_unavailable
            /\ g_results[i].has_trading_activity = "unknown"
            /\ g_results[i].error_message \notin
                   {None, "No trading activity detected during this period",
                    "Failed to fetch data from vendor"}

\* the vendor's bars with a timestamp from start_time to end_time, both included
BarsWithin(i) ==
    {t \in Timestamps : /\ g_vendor[t] # "none"
                        /\ g_results[i].start_time <= t
                        /\ t <= g_results[i].end_time}
\* the re-fetch of outcome i was answered and held no candle of its period
ZeroCandles(i) ==
    \/ g_trace[i].fetch = "http_error"
    \/ g_trace[i].fetch = "ok" /\ ~g_trace[i].malformed /\ BarsWithin(i) = {}

\* C13: when the re-fetch of a period yields no candle of the period, the outcome is
\* not recovered and vendor-unavailable; if the probe found trades it says trading
\* activity and that the vendor failed to deliver, if the probe found none it says no
\* trading activity and names that as the reason.  Checked under SpecGap.
C13_ZeroCandlesOutcome ==
    \A i \in GapOutcomes :
        ZeroCandles(i) /\ g_trace[i].probe \in {"trades", "no_trades"} =>
            /\ ~g_results[i].success
            /\ g_results[i].candles_recovered = 0
            /\ g_results[i].vendor_unavailable
            /\ g_trace[i].probe = "trades" =>
                   /\ g_results[i].has_trading_activity = "yes"
                   /\ g_results[i].error_message = "Failed to fetch data from vendor"
            /\ g_trace[i].probe = "no_trades" =>
                   /\ g_results[i].has_trading_activity = "no"
                   /\ g_results[i].error_message =
                          "No trading activity detected during this period"

C13_Witness ==
    \E i \in GapOutcomes :
        /\ ZeroCandles(i)
        /\ g_trace[i].probe = "no_trades"
        /\ g_results[i].vendor_unavailable
        /\ g_results[i].has_trading_activity = "no"

\* C14: after a period's recovered candles were persisted, the file holds the freshly
\* fetched values at every recovered timestamp, also where a candle was already stored.
\* Checked under SpecGap.
C14_FreshValuesKept ==
    \A i \in GapOutcomes :
        (g_results[i].success /\ ~g_trace[i].store_failed) =>
            \A t \in BarsWithin(i) : ValuesAt(g_file, t) = {"fresh"}

\* C15: whenever an outcome says recovered with n candles, those n candles are in the
\* file, and validating the day again reports none of their minutes missing.
\* Checked under SpecGap.
C15_RecoveredCandlesStored ==
    \A i \in GapOutcomes :
        g_results[i].success =>
            /\ g_results[i].candles_recovered = Cardinality(BarsWithin(i))
            /\ BarsWithin(i) \subseteq TimesOf(g_file)
            /\ LET again == find_missing_periods(SeriesOf(g_file), FALSE)
               IN  \A k \in 1..Len(again), t \in BarsWithin(i) :
                       ~(again[k][1] <= t /\ t < again[k][2])

\* C16: a vendor candle violating the OHLC/volume constraints is dropped on its own:
\* the period's outcome is the one the response without that candle gives.
\* Checked under SpecGap.
C16_MalformedCandleDroppedAlone ==
    \A i \in GapOutcomes :
        (g_trace[i].fetch = "ok" /\ g_trace[i].malformed) =>
            LET well_formed == {t \in BarsWithin(i) : g_vendor[t] = "fresh"}
            IN  /\ g_results[i].error_message # "candle validation error"
                /\ well_formed # {} =>
                       /\ g_results[i].success
                       /\ g_results[i].candles_recovered = Cardinality(well_formed)

\* C17: after any sequence of store_data calls the file has one row per timestamp, is
\* ordered by time, and holds for every timestamp the values of the latest call that
\* contained that timestamp.  Checked under SpecStore.
C17_LastWriteWins ==
    /\ \A i, j \in 1..Len(s_file) : i < j => s_file[i].t < s_file[j].t
    /\ TimesOf(s_file) = {t \in StoreTimes : s_latest[t] # {}}
    /\ \A i \in 1..Len(s_file) : s_file[i].v \in s_latest[s_file[i].t]

\* the minutes one complete recovery adds to the initial file: the vendor's bars of
\* every initially missing period whose response holds no malformed bar
RecoverableTimes ==
    LET periods == find_missing_periods(SeriesOf(g_initial), FALSE)
    IN  UNION {{t \in Timestamps : /\ g_vendor[t] = "fresh"
                                   /\ periods[k][1] <= t /\ t <= periods[k][2]} :
                  k \in {j \in 1..Len(periods) :
                            \A t \in (periods[j][1] - 1)..periods[j][2] :
                                t \in Timestamps => g_vendor[t] # "malformed"}}

\* the file one complete recovery of the initial file ends in
CompleteRecovery ==
    LET times == SortedSeq(TimesOf(g_initial) \cup RecoverableTimes)
    IN  [i \in 1..Len(times) |->
            IF times[i] \in TimesOf(g_initial)
            THEN Row(times[i], CHOOSE v \in ValuesAt(g_initial, times[i]) : TRUE)
            ELSE Row(times[i], "fresh")]

\* C18: detection and recovery can be rerun: at any point the file has one row per
\* timestamp, has lost no initial candle and holds nothing a complete recovery would not
\* hold; and every call that processed all its periods without a fault, be it the
\* first, one on an already recovered file or one on a partially recovered file, ends
\* in the file of one complete recovery.  Checked under SpecGap.
C18_RerunReachesCompleteRecovery ==
    LET complete == CompleteRecovery
    IN  /\ \A i, j \in 1..Len(g_file) : i < j => g_file[i].t < g_file[j].t
        /\ TimesOf(g_initial) \subseteq TimesOf(g_file)
        /\ \A i \in 1..Len(g_file) :
               \E k \in 1..Len(complete) : complete[k] = g_file[i]
        /\ (GapCallReturned /\ g_clean) => g_file = complete

C18_Witness ==
    /\ GapCallReturned /\ g_clean /\ g_rerun
    /\ g_file = CompleteRecovery
    /\ g_file # g_initial

SessionMinutes == market_open_utc..(market_close_utc(v_half_day) - 1)
LoadedTimes == {t \in Timestamps : load_data(v_rows)[t] # "absent"}
PeriodMinutes(period) == {t \in Timestamps : period[1] <= t /\ t < period[2]}

\* C19: on a trading day the missing periods are half-open intervals in increasing
\* order with a present minute between any two of them, no period contains a minute
\* that has a candle, and together they cover exactly the session minutes without a
\* candle among the candles the validator loaded.  Checked under SpecValidate.
C19_MissingPeriodsPartition ==
    \A r \in 1..Len(v_result) :
        v_trading_day =>
            LET periods == v_result[r].missing_periods
            IN  /\ \A k \in 1..Len(periods) : periods[k][1] < periods[k][2]
                /\ \A k \in 1..(Len(periods) - 1) : periods[k][2] < periods[k + 1][1]
                /\ UNION {PeriodMinutes(periods[k]) : k \in 1..Len(periods)}
                       = SessionMinutes \ LoadedTimes

C19_Witness ==
    /\ Len(v_result) = 1
    /\ v_trading_day
    /\ Len(v_result[1].missing_periods) = 2
    /\ LoadedTimes # {}

InWindow(source, lo, hi) ==
    LET Inside(c) == lo <= c.date /\ c.date < hi
    IN  SelectSeq(source, Inside)

RECURSIVE SumVolumes(_)
SumVolumes(members) ==
    IF members = <<>> THEN 0 ELSE Head(members).volume + SumVolumes(Tail(members))

\* candle c carries first open, highest high, lowest low, last close and total
\* volume of the non-empty sequence members
AggregateOf(c, members) ==
    /\ members # <<>>
    /\ c.open = members[1].open
    /\ c.close = members[Len(members)].close
    /\ \E i \in 1..Len(members) : c.high = members[i].high
    /\ \A i \in 1..Len(members) : members[i].high <= c.high
    /\ \E i \in 1..Len(members) : c.low = members[i].low
    /\ \A i \in 1..Len(members) : c.low <= members[i].low
    /\ c.volume = SumVolumes(members)

\* every candle of the result aggregates the source rows of the window of length
\* len that starts at Start(candle), and every source row lies in such a window
BucketsAre(source, candles, Start(_), len) ==
    /\ \A j \in 1..Len(candles) :
            AggregateOf(candles[j], InWindow(source, Start(candles[j]), Start(candles[j]) + len))
    /\ \A i \in 1..Len(source) : \E j \in 1..Len(candles) :
            Start(candles[j]) <= source[i].date /\ source[i].date < Start(candles[j]) + len

\* the calls that returned a series built from a non-empty source
Resampled(call) ==
    /\ call.result.kind = "series"
    /\ load_source(r_source, call.from_timeframe) # <<>>

\* C21: every resample call whose target timeframe is unrecognised or not strictly
\* longer than its source timeframe fails with an error instead of returning a series
C21_NotLongerTargetFails ==
    \A i \in 1..Len(r_call) :
        LET call == r_call[i]
            from_minutes == get_timeframe_minutes(call.from_timeframe)
            to_minutes == get_timeframe_minutes(call.to_timeframe)
        IN  (call.to_timeframe \notin RecognisedTimeframes \/ to_minutes <= from_minutes)
                => call.result.kind = "error"

\* C22: a daily resample_data result has one candle per daily bucket, stamped with
\* the start of its bucket: 20:00 UTC for a us_equity source (the bucket closes at
\* the next 20:00 UTC), 00:00 UTC for every other asset type
C22_DailyBoundaryByAssetType ==
    \A i \in 1..Len(r_call) :
        LET call == r_call[i]
            boundary == IF r_asset = "us_equity" THEN 20 * 60 ELSE 0
            Start(c) == c.date
        IN  (call.entry = "resample_data" /\ call.to_timeframe = "daily" /\ Resampled(call))
                => /\ \A j \in 1..Len(call.result.candles) :
                            call.result.candles[j].date % DayMinutes = boundary
                   /\ BucketsAre(r_source, call.result.candles, Start, DayMinutes)

\* C23: a 1h, 2h or 4h result of either entry point has one candle per bucket and
\* every bucket starts on a UTC multiple of the bucket length, for every asset type
C23_LongIntradayUtcAligned ==
    \A i \in 1..Len(r_call) :
        LET call == r_call[i]
            len == get_timeframe_minutes(call.to_timeframe)
            Start(c) == c.date
        IN  (call.to_timeframe \in {"1h", "2h", "4h"} /\ Resampled(call))
                => /\ \A j \in 1..Len(call.result.candles) :
                            call.result.candles[j].date % len = 0
                   /\ BucketsAre(r_source, call.result.candles, Start, len)

\* us_equity 1-minute data starting at 13:30 resampled to 1h: first bucket at 13:00
C23_Witness ==
    \E i \in 1..Len(r_call) :
        /\ r_call[i].entry = "resample_data" /\ r_call[i].to_timeframe = "1h"
        /\ r_asset = "us_equity" /\ Resampled(r_call[i])
        /\ r_source[1].date = (13 * 60) + 30
        /\ r_call[i].result.candles[1].date = 13 * 60

\* C24: a 5, 15 or 30 minute result has one candle per bucket; bucket starts are the
\* session open (13:30 for us_equity, 08:00 for forex, 00:00 otherwise) plus a
\* multiple of the bucket length; us_equity 1-minute data starting at 13:30 has its
\* first bucket at 13:30
C24_ShortIntradaySessionAnchored ==
    \A i \in 1..Len(r_call) :
        LET call == r_call[i]
            len == get_timeframe_minutes(call.to_timeframe)
            session_open == CASE r_asset = "us_equity" -> (13 * 60) + 30
                              [] r_asset = "forex" -> 8 * 60
                              [] OTHER -> 0
            Start(c) == c.date
        IN  (call.entry = "resample_data" /\ call.to_timeframe \in {"5min", "15min", "30min"}
             /\ Resampled(call))
                => /\ \A j \in 1..Len(call.result.candles) :
                            (call.result.candles[j].date - session_open) % len = 0
                   /\ BucketsAre(r_source, call.result.candles, Start, len)
                   /\ (r_asset = "us_equity" /\ r_source[1].date = (13 * 60) + 30)
                        => call.result.candles[1].date = (13 * 60) + 30

\* us_equity data starting at 13:30 resampled to 5 minutes: 13:30 and 13:31 share
\* the first bucket, 13:35 opens the second
C24_Witness ==
    \E i \in 1..Len(r_call) :
        /\ r_call[i].entry = "resample_data" /\ r_call[i].to_timeframe = "5min"
        /\ r_asset = "us_equity" /\ Resampled(r_call[i])
        /\ Len(r_source) = 3 /\ r_source[1].date = (13 * 60) + 30
        /\ r_source[3].date = (13 * 60) + 35
        /\ Len(r_call[i].result.candles) = 2
        /\ r_call[i].result.candles[2].date = (13 * 60) + 35

\* the source rows first..last
Run(source, first, last) == SubSeq(source, first, last)

\* C25: the candles of a result are the aggregates (first open, highest high, lowest
\* low, last close, total volume) of consecutive non-empty runs of the source rows
\* that together hold every source row exactly once
C25_AggregatesOfPartition ==
    \A i \in 1..Len(r_call) :
        LET call == r_call[i]
            source == load_source(r_source, call.from_timeframe)
            candles == call.result.candles
            n == Len(source)
            m == Len(candles)
        IN  Resampled(call) =>
                \E ends \in SUBSET (1..n) :
                    /\ n \in ends /\ Cardinality(ends) = m
                    /\ LET e == SortedSeq(ends)
                       IN  \A j \in 1..m :
                              AggregateOf(candles[j],
                                          Run(source, IF j = 1 THEN 1 ELSE e[j - 1] + 1, e[j]))

\* three source rows in one bucket whose highest high is the middle row's
C25_Witness ==
    \E i \in 1..Len(r_call) :
        /\ Resampled(r_call[i]) /\ Len(r_source) = 3
        /\ Len(r_call[i].result.candles) = 1
        /\ r_source[2].high > r_source[1].high /\ r_source[2].high > r_source[3].high
        /\ r_call[i].result.candles[1].high = r_source[2].high
        /\ r_call[i].result.candles[1].close # r_source[1].close

\* C26: with 1-minute data stored and no custom start date, the update range starts
\* on the date of the last stored candle whenever that date is a trading day
C26_RangeStartsOnLastStoredDate ==
    \A i \in 1..Len(u_range) :
        (u_last_update # <<>> /\ u_custom_start = <<>>
         /\ DateOf(u_last_update[1]) \in u_trading_days)
            => u_range[i][1] = DateOf(u_last_update[1])

\* the last candle was stored late on a trading day before yesterday: the range
\* runs from that day to a later day
C26_Witness ==
    \E i \in 1..Len(u_range) :
        /\ u_last_update # <<>> /\ u_custom_start = <<>> /\ u_custom_end = <<>>
        /\ u_last_update[1] % SlotsPerDay = SlotsPerDay - 1
        /\ DateOf(u_last_update[1]) \in u_trading_days
        /\ u_range[i][1] = DateOf(u_last_update[1])
        /\ u_range[i][2] > u_range[i][1]

\* the positions of the terminal statuses in a progress history
TerminalPositions(h) == {k \in 1..Len(h) : h[k] \in {"completed", "failed"}}

\* C27: every requested symbol eventually has a terminal status (completed or
\* failed); at any time it has at most one, with no status reported after it; and
\* once the run's response is built the terminal status is completed exactly when
\* the symbol's result has success = true
C27_OneTerminalStatus ==
    /\ \A s \in Symbols : (s \in Range(symbols)) ~> Terminal(progress[s])
    /\ [](\A s \in Range(symbols) :
            LET h == progress[s]
            IN  /\ Cardinality(TerminalPositions(h)) <= 1
                /\ TerminalPositions(h) \subseteq {Len(h)}
                /\ response.ready =>
                      /\ s \in DOMAIN response.symbol_results
                      /\ (h[Len(h)] = "completed") <=> response.symbol_results[s].success)

\* C28: the recorded batches of a fetch of [f_from, f_to] are date windows of at most
\* the batch size of the timeframe, the first starting at f_from, each next one
\* starting the day after the previous one ends whether or not that one failed, and
\* the last one of a finished fetch ending at f_to; every request sent asks for the
\* window of its batch
C28_BatchWindowsTileRange ==
    LET size == calculate_batch_size(f_timeframe)
        n == Len(f_batches)
    IN  /\ \A k \in 1..n :
              /\ f_batches[k].start_date <= f_batches[k].end_date
              /\ (f_batches[k].end_date - f_batches[k].start_date) + 1 <= size
              /\ f_batches[k].start_date =
                    (IF k = 1 THEN f_from ELSE f_batches[k - 1].end_date + 1)
              /\ f_batches[k].end_date <= f_to
        /\ f_pc = "done" => (n >= 1 /\ f_batches[n].end_date = f_to)
        /\ \A k \in 1..Len(f_requests) :
              IF f_pc \in {"request", "backoff"}
              THEN /\ f_requests[k].start_date =
                        (IF n = 0 THEN f_from ELSE f_batches[n].end_date + 1)
                   /\ f_requests[k].end_date <= f_to
              ELSE /\ f_requests[k].start_date = f_batches[n].start_date
                   /\ f_requests[k].end_date = f_batches[n].end_date

\* a finished fetch of two batches whose first batch failed: the second window is
\* the single remaining day of the range
C28_Witness ==
    /\ f_pc = "done" /\ Len(f_batches) = 2
    /\ ~f_batches[1].success
    /\ f_batches[1].start_date = f_from
    /\ (f_batches[1].end_date - f_from) + 1 = calculate_batch_size(f_timeframe)
    /\ f_batches[2].start_date = f_batches[1].end_date + 1
    /\ f_batches[2].start_date = f_batches[2].end_date
    /\ f_batches[2].end_date = f_to

\* the date ranges of a batch list, and its batches recorded as successful
BatchRanges(batches) ==
    {<<batches[k].start_date, batches[k].end_date>> : k \in 1..Len(batches)}
SuccessfulBatches(batches) == {batches[k] : k \in {j \in 1..Len(batches) : batches[j].success}}

\* C30: after any number of retry_failed_batches calls the result holds one batch per
\* date range of the original fetch; every batch successful in the original result
\* or in the argument of the latest call is still recorded successful, unchanged,
\* with the candles retained; the latest call fetched only ranges of batches that
\* had failed, each once; and total_batches = successful_batches + failed_batches =
\* the number of recorded batches, counting them as recorded
C30_RetryKeepsBatchesAndCounts ==
    x_pc = "idle" =>
        /\ BatchRanges(x_result.batches) = BatchRanges(x_original.batches)
        /\ Len(x_result.batches) = Len(x_original.batches)
        /\ SuccessfulBatches(x_original.batches) \subseteq SuccessfulBatches(x_result.batches)
        /\ SuccessfulBatches(x_input.batches) \subseteq SuccessfulBatches(x_result.batches)
        /\ x_original.candles \subseteq x_result.candles
        /\ x_input.candles \subseteq x_result.candles
        /\ \A k \in 1..Len(x_fetched) :
              /\ x_fetched[k] \in get_missing_date_ranges(x_input.batches)
              /\ \A j \in 1..Len(x_fetched) : x_fetched[j] = x_fetched[k] => j = k
        /\ x_result.total_batches = Len(x_result.batches)
        /\ x_result.total_batches = x_result.successful_batches + x_result.failed_batches
        /\ x_result.successful_batches = Cardinality(SuccessfulBatches(x_result.batches))
        /\ x_result.failed_batches = Cardinality(get_failed_batches(x_result.batches))

\* two calls have returned on a result with one successful and one failed batch: the
\* retry of the first call failed again, the second call fetched the same range once
\* more and recovered it
C30_Witness ==
    /\ x_pc = "idle" /\ x_calls = 2
    /\ x_original.failed_batches = 1 /\ x_original.successful_batches = 1
    /\ x_input.failed_batches = 1
    /\ Len(x_fetched) = 1
    /\ x_result.failed_batches = 0 /\ x_result.successful_batches = 2
    /\ x_result.candles # x_original.candles

RECURSIVE MinutesCovered(_)
MinutesCovered(periods) ==
    IF periods = <<>> THEN 0
    ELSE (Head(periods)[2] - Head(periods)[1]) + MinutesCovered(Tail(periods))

\* C29: on a trading day, full or half, expected_candles = actual_candles + the
\* number of minutes the returned missing periods cover.  Checked under SpecValidate.
C29_ExpectedIsActualPlusMissing ==
    \A r \in 1..Len(v_result) :
        v_trading_day =>
            v_result[r].expected_candles =
                v_result[r].actual_candles + MinutesCovered(v_result[r].missing_periods)

\* a half day with a pre-market candle, a candle after the early close, one session
\* candle and one missing session minute
C29_Witness ==
    /\ Len(v_result) = 1 /\ v_trading_day /\ v_half_day
    /\ v_rows[0] = "ok" /\ v_rows[market_close_utc(TRUE)] = "ok"
    /\ v_result[1].actual_candles = 1
    /\ Len(v_result[1].missing_periods) = 1
    /\ v_result[1].expected_candles = expected_candles_half_day

====
